---- MODULE Spec2Model ----
(***************************************************************************)
(* Signal-to-trade pipeline of solana-trading-intelligence:                *)
(*   - CircuitBreaker (the RiskGate), src/logic/risk/circuit_breaker.py    *)
(*   - ExecutionOrchestrator.process_signal, src/execution/orchestrator.py *)
(*   - ExecutionOrchestrator.check_exits, the tiered exits                 *)
(*   - SubWalletManager, src/execution/subwallets.py                       *)
(*   - TokenSimulator and SimulationResult, src/logic/simulation           *)
(*   - JitoBundleSubmitter, src/execution/jito.py                          *)
(*   - CEXFreshWalletMatcher, src/logic/matcher                            *)
(*   - CorrelationEngine, src/logic/correlation                            *)
(*   - ingestion listeners, publisher and LogicEngine._process_loop        *)
(*   - CEXWithdrawalMonitor, src/ingestion/cex_monitor.py                  *)
(*   - AESKeyManager, src/execution/key_manager.py                         *)
(*                                                                         *)
(* Amounts are in hundredths of SOL, confidences and percentages in        *)
(* percent, times in hours.  A datetime that is None is NoTime.            *)
(* Every CircuitBreaker method is one atomic step; process_signal is cut   *)
(* at the awaits that touch shared state, so that several asyncio tasks    *)
(* running it interleave as the event loop allows.                         *)
(***************************************************************************)
EXTENDS Integers, Sequences, FiniteSets, TLC

VARIABLES
    state,             \* CircuitBreaker._state (loaded = FALSE models None)
    db,                \* row id = 1 of circuit_breaker_state
    now,               \* datetime.now(timezone.utc)
    last,              \* the last CircuitBreaker call and what it returned
    trade_log,         \* table trade_log; a row's index is its trade_id
    active_positions,  \* ExecutionOrchestrator._active_positions
    wiring,            \* the router and sub-wallet manager it was built with
    store_errors,      \* calls so far during which the store did not answer
    tasks,             \* the asyncio tasks running process_signal
    exit_strategy,     \* ExecutionOrchestrator.exit_strategy
    legs,              \* the sell bundles _execute_exit has submitted
    exit_result,       \* the last ExecutionResult of _execute_exit
    pool,              \* table sub_wallets, one row per wallet_id
    callers,           \* the SubWallet each caller was handed and has not
                       \* yet passed to mark_wallet_used
    distributions,     \* what the last distribute_trade returned
    sim_result,        \* the SimulationResult last built or returned
    jito,              \* requests sent to Jito and the last BundleResult
    matcher,           \* the last matcher call: its inputs, score and match
    correlation,       \* CorrelationEngine: _event_cache, _clusters, _wallet_clusters
    bus,               \* ingestion -> Redis solana:transactions -> LogicEngine._process_loop
    cex,               \* CEXWithdrawalMonitor: _processed_txs and the last transaction parsed
    sizing,            \* the last confidence sized and the last size validated
    vault,             \* AESKeyManager: a key, its stored blob, and what decrypt_key gave
    report             \* TradeForensics: the last ForensicReport of analyze_failure

vars ==
    <<state, db, now, last, trade_log, active_positions, wiring,
      store_errors, tasks, exit_strategy, legs, exit_result,
      pool, callers, distributions, sim_result,
      jito,
      matcher,
      correlation,
      bus,
      cex,
      sizing,
      vault,
      report>>

\* The breaker, the clock and process_signal.
pipeline ==
    <<state, db, now, last, trade_log, active_positions, wiring,
      store_errors, tasks>>

\* The exits and the sub-wallet pool.
execution ==
    <<exit_strategy, legs, exit_result, pool, callers, distributions>>

\* The components around the pipeline.
components ==
    <<sim_result, jito,
      matcher,
      correlation,
      bus,
      cex,
      sizing,
      vault,
      report>>

\* What process_signal and the CircuitBreaker never touch.
elsewhere == <<execution, components>>

(***************************************************************************)
(* Bounds of the model.                                                    *)
(***************************************************************************)
MaxTime == 2
MaxTrades == 2
MaxAbsPnl == 2000
MaxLossStreak == 2
MaxNegExposure == 0
MaxStoreErrors == 1

\* RiskLimits is configuration (RiskLimits(max_open_positions=5) in the
\* tests); the model instantiates the three limits that count something
\* with small values.
max_open_positions == 1
max_consecutive_losses == 2
lockdown_hours == 1

(***************************************************************************)
(* Program constants.                                                      *)
(***************************************************************************)
capital == 10000
max_daily_drawdown_pct == 10
max_position_size_pct == 5
base_pct == 1
max_pct == 5
\* remaining_pct is counted in units of 10^-7 of the position.
Whole == 10000000

NoTime == -1
Tasks == {1, 2}
PnlValues == {-1000, 1000}
PositionSizes == {300}

Abs(x) == IF x < 0 THEN -x ELSE x

(***************************************************************************)
(* TradeSignal: a signal is an immutable value, so every delivery of one   *)
(* signal_id carries the same token_mint and confidence.                   *)
(***************************************************************************)
token_mint(s) == IF s = 2 THEN "mintB" ELSE "mintA"

confidence(s) == IF s = 3 THEN 125 ELSE 50

(***************************************************************************)
(* CircuitBreaker                                                          *)
(***************************************************************************)
LockdownState ==
    [loaded |-> TRUE, is_locked |-> FALSE, locked_at |-> NoTime,
     lock_reason |-> "None", unlock_at |-> NoTime, daily_pnl |-> 0,
     consecutive_losses |-> 0, open_position_count |-> 0,
     total_exposure |-> 0]

NoState == [LockdownState EXCEPT !.loaded = FALSE]

\* load_state: the row of the store, or a default state when the fetch raises.
load_state(s, row, ok) == IF ok THEN row ELSE LockdownState

\* save_state: the new row; an error of the store is logged and swallowed.
save_state(s, row, ok) == IF s.loaded /\ ok THEN s ELSE row

\* "if not self._state: await self.load_state()"
EnsureLoaded(s, row, ok) == IF s.loaded THEN s ELSE load_state(s, row, ok)

\* A lockdown that sets no unlock_at.
_trigger_lockdown_without_unlock_at(s, reason, t) ==
    [s EXCEPT !.is_locked = TRUE, !.locked_at = t, !.lock_reason = reason]

_trigger_lockdown(s, reason, t) ==
    [s EXCEPT !.is_locked = TRUE, !.locked_at = t, !.lock_reason = reason,
              !.unlock_at = t + lockdown_hours]

_unlock(s) ==
    [s EXCEPT !.is_locked = FALSE, !.locked_at = NoTime,
              !.lock_reason = "None", !.unlock_at = NoTime,
              !.daily_pnl = 0, !.consecutive_losses = 0]

\* The expiry test with "now >= unlock_at" in place of "now > unlock_at".
LockdownExpiredAtUnlockAt(s, t) == s.unlock_at # NoTime /\ t >= s.unlock_at

LockdownExpired(s, t) == s.unlock_at # NoTime /\ t > s.unlock_at

can_trade(s, row, t, ok) ==
    LET s1 == EnsureLoaded(s, row, ok) IN
    IF s1.is_locked
    THEN IF LockdownExpired(s1, t)
         THEN [state |-> _unlock(s1), db |-> save_state(_unlock(s1), row, ok),
               ret |-> TRUE, unlocked |-> TRUE]
         ELSE [state |-> s1, db |-> row, ret |-> FALSE, unlocked |-> FALSE]
    ELSE IF s1.open_position_count >= max_open_positions
         THEN [state |-> s1, db |-> row, ret |-> FALSE, unlocked |-> FALSE]
         ELSE [state |-> s1, db |-> row, ret |-> TRUE, unlocked |-> FALSE]

validate_position_size(size_sol) ==
    ~(size_sol * 100 > capital * max_position_size_pct)

\* The drawdown test with ">=" in place of ">".
DrawdownBreachedAtLimit(s) ==
    Abs(s.daily_pnl) * 100 >= max_daily_drawdown_pct * capital

DrawdownBreached(s) == Abs(s.daily_pnl) * 100 > max_daily_drawdown_pct * capital

StreakBreached(s) == s.consecutive_losses >= max_consecutive_losses

\* record_trade_result decrementing open_position_count without the
\* "> 0" test.
record_trade_result_unguarded(s, row, t, ok, pnl, is_win, position_size) ==
    LET s1 == EnsureLoaded(s, row, ok)
        s2 == [s1 EXCEPT
                 !.daily_pnl = @ + pnl,
                 !.consecutive_losses = IF is_win THEN 0 ELSE @ + 1,
                 !.open_position_count = @ - 1,
                 !.total_exposure = @ - position_size]
        reason == IF DrawdownBreached(s2) THEN "Daily drawdown exceeded"
                  ELSE IF StreakBreached(s2) THEN "Consecutive losses"
                  ELSE "None"
        s3 == IF reason # "None" THEN _trigger_lockdown(s2, reason, t) ELSE s2
    IN [state |-> s3, db |-> save_state(s3, row, ok), ret |-> (reason = "None")]

\* record_trade_result keeping the loss streak on a win.
record_trade_result_keeping_streak(s, row, t, ok, pnl, is_win, position_size) ==
    LET s1 == EnsureLoaded(s, row, ok)
        s2 == [s1 EXCEPT
                 !.daily_pnl = @ + pnl,
                 !.consecutive_losses = IF is_win THEN @ ELSE @ + 1,
                 !.open_position_count = IF @ > 0 THEN @ - 1 ELSE @,
                 !.total_exposure = @ - position_size]
        reason == IF DrawdownBreached(s2) THEN "Daily drawdown exceeded"
                  ELSE IF StreakBreached(s2) THEN "Consecutive losses"
                  ELSE "None"
        s3 == IF reason # "None" THEN _trigger_lockdown(s2, reason, t) ELSE s2
    IN [state |-> s3, db |-> save_state(s3, row, ok), ret |-> (reason = "None")]

record_trade_result(s, row, t, ok, pnl, is_win, position_size) ==
    LET s1 == EnsureLoaded(s, row, ok)
        s2 == [s1 EXCEPT
                 !.daily_pnl = @ + pnl,
                 !.consecutive_losses = IF is_win THEN 0 ELSE @ + 1,
                 !.open_position_count = IF @ > 0 THEN @ - 1 ELSE @,
                 !.total_exposure = @ - position_size]
        reason == IF DrawdownBreached(s2) THEN "Daily drawdown exceeded"
                  ELSE IF StreakBreached(s2) THEN "Consecutive losses"
                  ELSE "None"
        s3 == IF reason # "None" THEN _trigger_lockdown(s2, reason, t) ELSE s2
    IN [state |-> s3, db |-> save_state(s3, row, ok), ret |-> (reason = "None")]

record_position_opened(s, row, ok, size_sol) ==
    LET s1 == EnsureLoaded(s, row, ok)
        s2 == [s1 EXCEPT !.open_position_count = @ + 1,
                         !.total_exposure = @ + size_sol]
    IN [state |-> s2, db |-> save_state(s2, row, ok)]

force_unlock(s, row, ok) ==
    LET s1 == _unlock(EnsureLoaded(s, row, ok))
    IN [state |-> s1, db |-> save_state(s1, row, ok)]

reset_daily_stats(s, row, ok) ==
    LET s1 == [EnsureLoaded(s, row, ok) EXCEPT !.daily_pnl = 0]
    IN [state |-> s1, db |-> save_state(s1, row, ok)]

OpenTradeIds(log) == {i \in DOMAIN log : log[i].status = "open"}

RECURSIVE SetToSeq(_)
SetToSeq(S) ==
    IF S = {} THEN <<>>
    ELSE LET m == CHOOSE x \in S : \A y \in S : x <= y
         IN <<m>> \o SetToSeq(S \ {m})

MarkPanicSold(log) ==
    [i \in DOMAIN log |->
        IF log[i].status = "open"
        THEN [log[i] EXCEPT !.status = "panic_sold", !.exit_time = "NOW",
                            !.exit_tier = "PANIC"]
        ELSE log[i]]

\* panic_sell_all does not load the state: on a breaker whose _state is
\* still None, _trigger_lockdown raises AttributeError before anything is
\* done.  When the fetch of the open rows raises, the lock stays in memory
\* only and the counters are left as they were.
panic_sell_all(s, row, log, t, ok) ==
    IF ~s.loaded
    THEN [state |-> s, db |-> row, log |-> log, raised |-> TRUE, ret |-> <<>>]
    ELSE LET s1 == _trigger_lockdown(s, "Manual panic sell", t) IN
         IF ok
         THEN LET s2 == [s1 EXCEPT !.open_position_count = 0,
                                   !.total_exposure = 0]
              IN [state |-> s2, db |-> save_state(s2, row, ok),
                  log |-> MarkPanicSold(log), raised |-> FALSE,
                  ret |-> SetToSeq(OpenTradeIds(log))]
         ELSE [state |-> s1, db |-> row, log |-> log, raised |-> FALSE,
               ret |-> <<>>]

(***************************************************************************)
(* ExecutionOrchestrator                                                   *)
(***************************************************************************)
ErrBreaker == "Trading halted: Circuit breaker active"
ErrHoneypot == "Token failed simulation: Potential honeypot"
ErrSize == "Position size exceeds risk limits"
ErrRoute == "No route found for swap"
ErrNoWallet == "'NoneType' object has no attribute 'get'"
ErrWalletObject == "'SubWallet' object has no attribute 'get'"
ErrWalletDict == "'dict' object has no attribute 'wallet_id'"
ErrRouteObject == "'Route' object has no attribute 'get'"
ErrStore == "store error"

\* What the collaborators the orchestrator is built with return.  A route is
\* a dict (RouterProtocol, the tests) or a Route dataclass
\* (SmartOrderRouter).  A wallet is a SubWallet dataclass
\* (SubWalletManager), a dict (SubWalletProtocol, SubWalletManagerWrapper,
\* the tests), or a "duck" that answers both .get(...) and .wallet_id, the
\* one shape with which lines 244-258 run to the end.  The pairings are the
\* ones the repository builds (SmartOrderRouter with SubWalletManager in
\* the execution package, SmartOrderRouter with SubWalletManagerWrapper in
\* src/main.py, dicts in the tests), and the one with which an entry
\* completes.
Wirings ==
    {[route |-> "Route", wallet |-> "SubWallet"],
     [route |-> "Route", wallet |-> "dict"],
     [route |-> "dict", wallet |-> "dict"],
     [route |-> "dict", wallet |-> "duck"]}

\* A variant that scales the confidence by max_pct instead of the spread
\* between base_pct and max_pct.
_calculate_position_size_by_max(conf) ==
    (capital * (base_pct * 100 + conf * max_pct)) \div 10000

\* _calculate_position_size, with capital in hundredths of SOL and the
\* confidence in percent: capital * (1% + confidence * (5% - 1%)).
_calculate_position_size(conf) ==
    (capital * (base_pct * 100 + conf * (max_pct - base_pct))) \div 10000

IdleTask ==
    [pc |-> "idle", signal |-> 0, has_wallet |-> FALSE, calls |-> {},
     success |-> FALSE, error |-> "", trade_id |-> 0]

\* op: the method; ret: the value it returned (TRUE for a method that
\* returns nothing); note: what happened on the way ("load_failed": the
\* state was loaded and the store raised, "implicit_unlock": can_trade
\* unlocked, "raised": the call ended in an exception).
NoCall == [op |-> "none", ret |-> FALSE, note |-> ""]

Call(op, ret, note) == [op |-> op, ret |-> ret, note |-> note]

LoadNote(s, ok) == IF ~s.loaded /\ ~ok THEN "load_failed" ELSE ""

\* ExecutionResult(success=False, error=...)
Rejected(task, called, err) ==
    [task EXCEPT !.pc = "done", !.calls = @ \cup called, !.success = FALSE,
                 !.error = err]

_log_trade_entry(log, trade_id, s, position_size) ==
    Append(log, [trade_id |-> trade_id, signal_id |-> s,
                 token_mint |-> token_mint(s),
                 position_size |-> position_size, status |-> "open",
                 exit_time |-> "None", exit_tier |-> "None",
                 realized_pnl |-> "None"])

\* entry_price and token_amount are the route's price and outAmount;
\* remaining_pct = Decimal("1.0") is Whole.
RegisterPosition(book, trade_id, s, position_size) ==
    book @@ (trade_id :> [token_mint |-> token_mint(s), entry_price |-> 10,
                          position_size |-> position_size,
                          token_amount |-> 100, remaining_pct |-> Whole])

(***************************************************************************)
(* Tiered exits: check_exits and _execute_exit.  Prices are integers, a    *)
(* multiplier is in tenths, a sell fraction and the stop loss in percent.  *)
(***************************************************************************)
ExitStrategy ==
    [t1_multiplier |-> 20, t1_sell_pct |-> 50,
     t2_multiplier |-> 50, t2_sell_pct |-> 50,
     t3_multiplier |-> 100, t3_sell_pct |-> 50,
     stop_loss_pct |-> -30]

\* The default strategy, and one whose first tier sells 90%.
ExitStrategies == {ExitStrategy, [ExitStrategy EXCEPT !.t1_sell_pct = 90]}

\* _get_current_price returned None.
NoPrice == -1

\* With an entry price of 10: 0.5p, 1.5p, 2.1p, 4.8p, 5.2p and 11p.
Prices == {5, 15, 21, 48, 52, 110}

NoExit == [tier |-> "None", sell_pct |-> 0]

\* check_exits, for one position: the tier to exit at and the fraction of
\* the remaining share to sell.  The position keeps no record of the tiers
\* it has already sold at.
ExitDecision(position, current_price, strategy) ==
    IF current_price = NoPrice \/ position.entry_price <= 0
    THEN NoExit
    ELSE IF current_price * 100
              <= position.entry_price * (100 + strategy.stop_loss_pct)
    THEN [tier |-> "SL", sell_pct |-> 100]
    ELSE IF current_price * 10 >= position.entry_price * strategy.t3_multiplier
    THEN [tier |-> "T3", sell_pct |-> strategy.t3_sell_pct]
    ELSE IF current_price * 10 >= position.entry_price * strategy.t2_multiplier
    THEN [tier |-> "T2", sell_pct |-> strategy.t2_sell_pct]
    ELSE IF current_price * 10 >= position.entry_price * strategy.t1_multiplier
    THEN [tier |-> "T1", sell_pct |-> strategy.t1_sell_pct]
    ELSE NoExit

\* The closing test with "<" in place of "<=".
ClosesBelowThreshold(new_remaining) == new_remaining * 100 < Whole

\* "if new_remaining <= Decimal("0.01")"
ClosesPosition(new_remaining) == new_remaining * 100 <= Whole

_log_trade_exit(log, trade_id, exit_tier) ==
    [log EXCEPT ![trade_id] =
        [@ EXCEPT !.status = "closed", !.exit_time = "NOW",
                  !.exit_tier = exit_tier]]

NoResult == [success |-> FALSE, error |-> "none"]

ExitFailed(book, log, err, submitted) ==
    [book |-> book, log |-> log, submitted |-> submitted,
     result |-> [success |-> FALSE, error |-> err]]

\* What the collaborators of _execute_exit do: no route, no transaction,
\* an exception while signing or submitting, a bundle that failed, a
\* bundle that was accepted.
ExitOutcomes == {"no_route", "no_tx", "raised", "jito_failed", "sold"}

\* _execute_exit.  route_kind is what the router returns (route.price
\* raises on a dict), ok whether the store takes the exit row.
_execute_exit(book, log, trade_id, exit_tier, sell_pct, outcome, route_kind, ok) ==
    IF trade_id \notin DOMAIN book
    THEN ExitFailed(book, log, "Position not found", FALSE)
    ELSE
    LET position == book[trade_id]
        remaining_pct == position.remaining_pct
        tokens_to_sell ==
            position.token_amount * ((remaining_pct * sell_pct) \div 100)
        new_remaining == remaining_pct - (remaining_pct * sell_pct) \div 100
    IN
    IF tokens_to_sell <= 0
    THEN [book |-> book, log |-> log, submitted |-> FALSE,
          result |-> [success |-> TRUE, error |-> "No tokens to sell"]]
    ELSE IF outcome = "no_route"
    THEN ExitFailed(book, log, "No route found for exit", FALSE)
    ELSE IF outcome = "no_tx"
    THEN ExitFailed(book, log, "Failed to build swap tx", FALSE)
    ELSE IF outcome = "raised"
    THEN ExitFailed(book, log, "exception", FALSE)
    ELSE IF outcome = "jito_failed"
    THEN ExitFailed(book, log, "Jito submission failed", FALSE)
    ELSE IF route_kind = "dict"
    THEN ExitFailed(book, log, "'dict' object has no attribute 'price'", TRUE)
    ELSE IF ClosesPosition(new_remaining)
    THEN IF ok
         THEN [book |-> [id \in DOMAIN book \ {trade_id} |-> book[id]],
               log |-> _log_trade_exit(log, trade_id, exit_tier),
               submitted |-> TRUE,
               result |-> [success |-> TRUE, error |-> ""]]
         ELSE ExitFailed(book, log, ErrStore, TRUE)
    ELSE [book |-> [book EXCEPT ![trade_id].remaining_pct = new_remaining],
          log |-> log, submitted |-> TRUE,
          result |-> [success |-> TRUE, error |-> ""]]

(***************************************************************************)
(* Initial state: a seeded, unlocked breaker row, an empty trade_log, and  *)
(* a freshly constructed breaker and orchestrator.                         *)
(***************************************************************************)
(***************************************************************************)
(* SubWalletManager: the pool of sub-wallets (table sub_wallets).          *)
(* Balances are in hundredths of a SOL, amounts to distribute in           *)
(* thousandths; a last_used of NoTime is SQL NULL.                         *)
(***************************************************************************)
Wallets == {"w1", "w2", "w3"}
Callers == {1, 2}

\* WalletDistribution
min_active_balance == 1
max_trades_before_rotation == 2
SplitCounts == {3, 7}
MaxSplits == 5

\* secrets.randbelow(40) - 20 lies in -20 .. 19
Variances == {-20, 19}

\* The draws of one distribute_trade call, one per interior share.
VarianceDraws ==
    {[i \in 1 .. 4 |-> v] : v \in Variances}
       \cup {[i \in 1 .. 4 |-> IF i % 2 = 1 THEN 19 ELSE -20]}
TotalAmounts == {1000}

\* A row as create_wallet inserts it.
FreshWallet ==
    [balance_sol |-> 0, is_active |-> TRUE, is_retired |-> FALSE,
     total_trades |-> 0, last_used |-> NoTime]

\* get_available_wallet returned None.
NoWallet == [wallet_id |-> "None", total_trades |-> 0, last_used |-> NoTime]

\* The SubWallet built from a row.
SubWallet(p, w) ==
    [wallet_id |-> w, total_trades |-> p[w].total_trades,
     last_used |-> p[w].last_used]

\* WHERE is_active = TRUE AND is_retired = FALSE AND balance_sol >= $1
Available(p) ==
    {w \in Wallets : /\ p[w].is_active
                     /\ ~p[w].is_retired
                     /\ p[w].balance_sol >= min_active_balance}

\* ORDER BY last_used ASC NULLS FIRST: the rows that may come first.
FirstRows(p) ==
    {w \in Available(p) :
        \A v \in Available(p) : p[w].last_used <= p[v].last_used}

\* The orders in which the database may return rows with equal last_used.
RowOrders == {<<"w1", "w2", "w3">>, <<"w3", "w2", "w1">>}

\* LIMIT 1
FirstRow(p, order) ==
    LET i == CHOOSE i \in DOMAIN order :
                /\ order[i] \in FirstRows(p)
                /\ \A j \in DOMAIN order : order[j] \in FirstRows(p) => i <= j
    IN order[i]

_rotate_wallet(p, w) ==
    [p EXCEPT ![w].is_retired = TRUE, ![w].is_active = FALSE]

\* fetch_ok: the SELECT answers; rotate_ok: the UPDATE of _rotate_wallet
\* answers.  When the UPDATE raises, _rotate_wallet logs and returns, the
\* recursive call selects the same wallet again, and so on until a
\* RecursionError is caught by the except clause: None is returned.
RECURSIVE get_available_wallet(_, _, _, _)
get_available_wallet(p, order, fetch_ok, rotate_ok) ==
    IF ~fetch_ok \/ Available(p) = {}
    THEN [pool |-> p, wallet |-> NoWallet]
    ELSE LET w == FirstRow(p, order) IN
         IF p[w].total_trades >= max_trades_before_rotation
         THEN IF rotate_ok
              THEN get_available_wallet(_rotate_wallet(p, w), order,
                                        fetch_ok, rotate_ok)
              ELSE [pool |-> p, wallet |-> NoWallet]
         ELSE [pool |-> p, wallet |-> SubWallet(p, w)]

mark_wallet_used(p, w, t, ok) ==
    IF ok
    THEN [p EXCEPT ![w].last_used = t, ![w].total_trades = @ + 1]
    ELSE p

Min(a, b) == IF a <= b THEN a ELSE b

\* The sum of the amounts of a list of (wallet, amount) pairs.
RECURSIVE TotalDistributed(_)
TotalDistributed(d) ==
    IF d = <<>> THEN 0 ELSE Head(d).amount + TotalDistributed(Tail(d))

\* The loop of distribute_trade from iteration i on.
RECURSIVE DistributeFrom(_, _, _, _, _, _, _)
DistributeFrom(p, order, remaining, split_count, i, variances, acc) ==
    IF i >= split_count
    THEN [pool |-> p, distributions |-> acc]
    ELSE LET r == get_available_wallet(p, order, TRUE, TRUE) IN
         IF r.wallet = NoWallet
         THEN [pool |-> r.pool, distributions |-> acc]
         ELSE LET amount ==
                    IF i = split_count - 1
                    THEN remaining
                    ELSE Min((remaining * (100 + variances[i + 1]))
                                \div ((split_count - i) * 100),
                             remaining)
                  acc2 == Append(acc, [wallet_id |-> r.wallet.wallet_id,
                                       amount |-> amount])
              IN IF remaining - amount <= 0
                 THEN [pool |-> r.pool, distributions |-> acc2]
                 ELSE DistributeFrom(r.pool, order, remaining - amount,
                                     split_count, i + 1, variances, acc2)

distribute_trade(p, order, total_amount, config_split_count, variances) ==
    DistributeFrom(p, order, total_amount,
                   Min(config_split_count, MaxSplits), 0, variances, <<>>)

(***************************************************************************)
(* TokenSimulator and SimulationResult.  Taxes are in percent; a tax of    *)
(* NoTax is None, an error of "None" is None.                              *)
(***************************************************************************)
NoTax == -1

\* SimulationResult(token_mint, program_id) before __post_init__.
SimulationResult ==
    [buy_success |-> FALSE, buy_actual_amount |-> 0, buy_tax |-> NoTax,
     buy_error |-> "None", transfer_blocked |-> FALSE,
     sell_success |-> "None", sell_tax |-> NoTax, sell_blocked |-> FALSE,
     sell_error |-> "None", risk_classification |-> "unknown",
     is_honeypot |-> FALSE, notes |-> "None", cached |-> FALSE]

Classified(r, class) ==
    [r EXCEPT !.risk_classification = class,
              !.is_honeypot = IF class = "honeypot" THEN TRUE ELSE @]

\* _classify_risk with a sell tax of exactly 15% still a caution.
_classify_risk_caution_at_limit(r) ==
    IF r.sell_blocked \/ (r.sell_tax # NoTax /\ r.sell_tax > 50)
    THEN Classified(r, "honeypot")
    ELSE IF r.transfer_blocked
    THEN [Classified(r, "honeypot") EXCEPT !.notes = "Transfer blocked"]
    ELSE IF r.sell_success # "True" /\ r.sell_error \notin {"None", ""}
    THEN Classified(r, "unknown")
    ELSE LET buy_tax == IF r.buy_tax = NoTax THEN 0 ELSE r.buy_tax
             sell_tax == IF r.sell_tax = NoTax THEN 0 ELSE r.sell_tax
         IN IF buy_tax < 5 /\ sell_tax < 5 THEN Classified(r, "safe")
            ELSE IF sell_tax <= 15 THEN Classified(r, "caution")
            ELSE IF sell_tax < 50 THEN Classified(r, "high_risk")
            ELSE Classified(r, "honeypot")

_classify_risk(r) ==
    IF r.sell_blocked \/ (r.sell_tax # NoTax /\ r.sell_tax > 50)
    THEN Classified(r, "honeypot")
    ELSE IF r.transfer_blocked
    THEN [Classified(r, "honeypot") EXCEPT !.notes = "Transfer blocked"]
    ELSE IF r.sell_success # "True" /\ r.sell_error \notin {"None", ""}
    THEN Classified(r, "unknown")
    ELSE LET buy_tax == IF r.buy_tax = NoTax THEN 0 ELSE r.buy_tax
             sell_tax == IF r.sell_tax = NoTax THEN 0 ELSE r.sell_tax
         IN IF buy_tax < 5 /\ sell_tax < 5 THEN Classified(r, "safe")
            ELSE IF sell_tax < 15 THEN Classified(r, "caution")
            ELSE IF sell_tax < 50 THEN Classified(r, "high_risk")
            ELSE Classified(r, "honeypot")

\* What a leg meets: no quote (the aggregator has no route, or the request
\* raised and _get_jupiter_quote returned None), a quote without routePlan,
\* a quote whose simulation error says the swap is blocked, an exception
\* (a timeout included) inside the leg, a quote for no tokens, success.
BuyOutcomes == {"no_quote", "no_route_plan", "raised", "nothing_out", "ok"}
SellOutcomes == {"no_quote", "no_route_plan", "blocked", "raised", "ok"}
TaxValues == {NoTax, 0, 4, 5, 14, 15, 49, 50, 51}
QuotedTaxes == {0, 5, 51}

_simulate_buy(r, buy, buy_tax) ==
    CASE buy = "no_quote" -> [r EXCEPT !.buy_error = "Failed to get buy quote"]
      [] buy = "no_route_plan" -> [r EXCEPT !.buy_error = "No route plan in quote"]
      [] buy = "raised" -> [r EXCEPT !.buy_error = "raised"]
      [] buy = "nothing_out" -> [r EXCEPT !.buy_success = TRUE,
                                          !.buy_actual_amount = 0,
                                          !.buy_tax = buy_tax]
      [] OTHER -> [r EXCEPT !.buy_success = TRUE,
                            !.buy_actual_amount = 10,
                            !.buy_tax = buy_tax]

_simulate_sell(r, sell, sell_tax) ==
    IF r.buy_actual_amount <= 0
    THEN [r EXCEPT !.sell_error = "No tokens to sell (buy failed)"]
    ELSE CASE sell = "no_quote" ->
                [r EXCEPT !.sell_blocked = TRUE,
                          !.sell_error = "No sell route available"]
           [] sell = "no_route_plan" ->
                [r EXCEPT !.sell_error = "No route plan in quote"]
           [] sell = "blocked" ->
                [r EXCEPT !.sell_blocked = TRUE, !.sell_error = "blocked"]
           [] sell = "raised" -> [r EXCEPT !.sell_error = "raised"]
           [] OTHER -> [r EXCEPT !.sell_success = "True",
                                 !.sell_tax = sell_tax]

\* simulate_token past the cache: the three legs, the classification, and
\* the result put into _cache.  _simulate_transfer assumes success.
simulate_token(buy, buy_tax, sell, sell_tax) ==
    LET r0 == _classify_risk(SimulationResult)
        r1 == _simulate_buy(r0, buy, buy_tax)
        r2 == IF r1.buy_success
              THEN _simulate_sell([r1 EXCEPT !.transfer_blocked = FALSE],
                                  sell, sell_tax)
              ELSE r1
    IN [_classify_risk(r2) EXCEPT !.cached = TRUE]

(***************************************************************************)
(* JitoBundleSubmitter.submit_bundle.                                      *)
(***************************************************************************)
\* JitoConfig
max_transactions == 5

\* What http.post does with the sendBundle request: a response carrying a
\* bundle id, a response carrying an error message, a response with
\* neither, None, an exception.
Responses == {"bundle_1", "bundle_2", "error", "empty", "none", "raises"}
BundleIds == {"bundle_1", "bundle_2"}

BundleResult(bundle_id, status, error) ==
    [bundle_id |-> bundle_id, status |-> status, error |-> error]

\* No call yet.
NoBundle ==
    [posts |-> 0, transactions |-> 0, result |-> BundleResult("", "none", "None")]

\* submit_bundle without the test for an empty bundle.
submit_bundle_sending_empty(transactions, response) ==
    IF transactions > max_transactions
    THEN [posts |-> 0, result |-> BundleResult("", "failed", "Too many transactions")]
    ELSE [posts |-> 1,
          result |->
            IF response \in BundleIds
            THEN BundleResult(response, "pending", "None")
            ELSE BundleResult("", "failed",
                    CASE response = "error" -> "Invalid bundle"
                      [] response = "empty" -> "Unknown error"
                      [] response = "none" -> "'NoneType' object has no attribute 'get'"
                      [] OTHER -> "connection failed")]

\* transactions is len(transactions); posts counts the requests issued.
submit_bundle(transactions, response) ==
    IF transactions > max_transactions
    THEN [posts |-> 0, result |-> BundleResult("", "failed", "Too many transactions")]
    ELSE IF transactions = 0
    THEN [posts |-> 0, result |-> BundleResult("", "failed", "Bundle must contain at least one transaction")]
    ELSE [posts |-> 1,
          result |->
            IF response \in BundleIds
            THEN BundleResult(response, "pending", "None")
            ELSE BundleResult("", "failed",
                    CASE response = "error" -> "Invalid bundle"
                      [] response = "empty" -> "Unknown error"
                      [] response = "none" -> "'NoneType' object has no attribute 'get'"
                      [] OTHER -> "connection failed")]

(***************************************************************************)
(* CEXFreshWalletMatcher.  Times are in milliseconds, scores and relative  *)
(* amount differences in thousandths; amount_delta_pct, the quotient       *)
(* amount_delta / withdrawal.amount, is kept as that pair of integers.     *)
(***************************************************************************)
\* MatcherConfig
MAX_TIME_WINDOW_MS == 300000
MAX_AMOUNT_DELTA_PCT == 1
MAX_AMOUNT_DELTA_HARD_PCT == 5
TIME_WEIGHT == 400
AMOUNT_WEIGHT == 600
MIN_MATCH_SCORE == 750
FRESHNESS_BONUS == 100
One == 1000

\* Withdrawals (at time 0) and the funding events of fresh wallets.
WithdrawalAmounts == {0, 2000}
FundedTimes == {-300001, 0, 150000, 300000, 300001}
FundedAmounts == {1989, 1990, 1996, 1998, 1999, 2000}

FreshWallets ==
    [first_funded_time : FundedTimes, first_funded_amount : FundedAmounts,
     tx_count : {0, 2}]

NoFreshWallet ==
    [first_funded_time |-> 0, first_funded_amount |-> 0, tx_count |-> -1]

NoMatch ==
    [call |-> "none", amount |-> 0, wallet |-> NoFreshWallet, score |-> 0,
     matched |-> FALSE]

\* The score with the time window test letting a late funding through.
_calculate_match_score_late(amount, wallet) ==
    LET time_delta_ms == Abs(wallet.first_funded_time)
        clipped == IF time_delta_ms > MAX_TIME_WINDOW_MS
                   THEN MAX_TIME_WINDOW_MS ELSE time_delta_ms
        time_score == One - (clipped * One) \div MAX_TIME_WINDOW_MS
        amount_delta == Abs(wallet.first_funded_amount - amount)
        amount_score ==
            IF amount_delta * One > MAX_AMOUNT_DELTA_PCT * amount THEN 500
            ELSE One - (amount_delta * One * One)
                          \div (amount * MAX_AMOUNT_DELTA_PCT)
        freshness_bonus == IF wallet.tx_count = 0 THEN FRESHNESS_BONUS ELSE 0
        final_score == (TIME_WEIGHT * time_score + AMOUNT_WEIGHT * amount_score)
                          \div One + freshness_bonus
    IN IF amount = 0 \/ amount_delta * One > MAX_AMOUNT_DELTA_HARD_PCT * amount
       THEN 0
       ELSE Min(One, final_score)

\* withdrawal.timestamp is 0, so that first_funded_time is the difference.
_calculate_match_score(amount, wallet) ==
    LET time_delta_ms == Abs(wallet.first_funded_time)
        time_score == One - (time_delta_ms * One) \div MAX_TIME_WINDOW_MS
        amount_delta == Abs(wallet.first_funded_amount - amount)
        amount_score ==
            IF amount_delta * One > MAX_AMOUNT_DELTA_PCT * amount THEN 500
            ELSE One - (amount_delta * One * One)
                          \div (amount * MAX_AMOUNT_DELTA_PCT)
        freshness_bonus == IF wallet.tx_count = 0 THEN FRESHNESS_BONUS ELSE 0
        final_score == (TIME_WEIGHT * time_score + AMOUNT_WEIGHT * amount_score)
                          \div One + freshness_bonus
    IN IF time_delta_ms > MAX_TIME_WINDOW_MS THEN 0
       ELSE IF amount = 0
               \/ amount_delta * One > MAX_AMOUNT_DELTA_HARD_PCT * amount
       THEN 0
       ELSE Min(One, final_score)

\* The rows the query returns: funded within the window after the
\* withdrawal, for an amount within MAX_AMOUNT_DELTA_PCT of it; none when
\* the query raises.
_get_fresh_wallet_candidates(rows, amount, ok) ==
    IF ~ok THEN {}
    ELSE {w \in rows :
            /\ w.first_funded_time >= 0
            /\ w.first_funded_time <= MAX_TIME_WINDOW_MS
            /\ w.first_funded_amount * One >= amount * (One - MAX_AMOUNT_DELTA_PCT)
            /\ w.first_funded_amount * One <= amount * (One + MAX_AMOUNT_DELTA_PCT)}

\* The (wallet, score) pairs at or above the threshold.
scored_matches(candidates, amount) ==
    {w \in candidates : _calculate_match_score(amount, w) >= MIN_MATCH_SCORE}

(***************************************************************************)
(* The correlation engine (src/logic/correlation/engine.py).  An event is  *)
(* a wallet touching a contract at a slot.  _clusters is a sequence whose  *)
(* index stands for the uuid4 cluster id; _wallet_clusters maps a wallet   *)
(* to that index, 0 where the dict has no key.                             *)
(***************************************************************************)
Addresses == {"A", "B", "C", "D"}

MONITORED_PROGRAMS == {"raydium", "jupiter"}

BLOCK_WINDOW == 10

MIN_CLUSTER_SIZE == 2

_cache_max_slots == 100

Slots == {0, 20}

\* Every event on a monitored program, and one on another program.
CorrelationEvents ==
    [wallet_address : Addresses, contract_address : MONITORED_PROGRAMS,
     slot : Slots]
       \cup [wallet_address : {"A"}, contract_address : {"other"}, slot : {0}]

\* CorrelationConfig.ESCALATION_BASE, in thousandths.
ESCALATION_BASE == 100

\* results and escalated are what the last process_event returned and did:
\* the number of CorrelationResults, and by how much (in thousandths) its
\* UPDATEs raised tracked_wallets.confidence of each wallet.
NoEscalation == [w \in Addresses |-> 0]

NoClusters ==
    [_event_cache |-> {},
     _clusters |-> <<>>,
     _wallet_clusters |-> [w \in Addresses |-> 0],
     events |-> 0,
     results |-> 0,
     escalated |-> NoEscalation]

WalletCluster(wallets, shared_contracts) ==
    [wallets |-> wallets, shared_contracts |-> shared_contracts]

\* WalletCluster.add_wallet and add_shared_contract
add_wallet(cluster, wallet) ==
    [cluster EXCEPT !.wallets = @ \cup {wallet}]

add_shared_contract(cluster, contract) ==
    [cluster EXCEPT !.shared_contracts = @ \cup {contract}]

\* _cache_event: append under the slot, then drop the oldest slot when more
\* than _cache_max_slots slots are held.
_cache_event(cache, event) ==
    LET added == cache \cup {event}
        slots == {e.slot : e \in added}
        oldest_slot == CHOOSE s \in slots : \A t \in slots : s <= t
    IN IF Cardinality(slots) > _cache_max_slots
       THEN {e \in added : e.slot # oldest_slot}
       ELSE added

\* _find_correlated_wallets on the cache: the events on the same contract
\* within BLOCK_WINDOW slots of the event.
_find_correlated_wallets(cache, event) ==
    {e \in cache : /\ e.contract_address = event.contract_address
                   /\ e.slot >= event.slot - BLOCK_WINDOW
                   /\ e.slot <= event.slot + BLOCK_WINDOW}

\* A variant of _update_cluster that assigns the member set instead of
\* adding to it.
_update_cluster_replacing(c, contract_address, events, first) ==
    LET wallet_addresses == {e.wallet_address : e \in events}
        existing_cluster_id == c._wallet_clusters[first]
        cluster_id == Len(c._clusters) + 1
    IN IF first \in wallet_addresses /\ existing_cluster_id # 0
       THEN [c EXCEPT
               !._clusters[existing_cluster_id] =
                   WalletCluster(wallet_addresses,
                                 @.shared_contracts \cup {contract_address}),
               !._wallet_clusters =
                   [w \in Addresses |->
                      IF w \in wallet_addresses THEN existing_cluster_id
                      ELSE @[w]]]
       ELSE [c EXCEPT
               !._clusters =
                   Append(@, WalletCluster(wallet_addresses,
                                           {contract_address})),
               !._wallet_clusters =
                   [w \in Addresses |->
                      IF w \in wallet_addresses THEN cluster_id ELSE @[w]]]

\* _update_cluster.  `first` is the wallet at which the loop over the set of
\* wallet addresses finds an entry of _wallet_clusters and breaks: the
\* iteration order of a set of strings is not fixed.
_update_cluster(c, contract_address, events, first) ==
    LET wallet_addresses == {e.wallet_address : e \in events}
        existing_cluster_id == c._wallet_clusters[first]
        cluster_id == Len(c._clusters) + 1
        AddAll[ws \in SUBSET Addresses] ==
            IF ws = {} THEN c._clusters[existing_cluster_id]
            ELSE LET w == CHOOSE x \in ws : TRUE
                 IN add_wallet(AddAll[ws \ {w}], w)
    IN IF first \in wallet_addresses /\ existing_cluster_id # 0
       THEN [c EXCEPT
               !._clusters[existing_cluster_id] =
                   add_shared_contract(AddAll[wallet_addresses],
                                       contract_address),
               !._wallet_clusters =
                   [w \in Addresses |->
                      IF w \in wallet_addresses THEN existing_cluster_id
                      ELSE @[w]]]
       ELSE [c EXCEPT
               !._clusters =
                   Append(@, WalletCluster(wallet_addresses,
                                           {contract_address})),
               !._wallet_clusters =
                   [w \in Addresses |->
                      IF w \in wallet_addresses THEN cluster_id ELSE @[w]]]

\* The wallets at which the loop of _update_cluster can break.
FirstKnown(c, events) ==
    LET known == {e.wallet_address : e \in events}
                    \cap {w \in Addresses : c._wallet_clusters[w] # 0}
    IN IF known = {} THEN {CHOOSE w \in Addresses : TRUE} ELSE known

\* _escalate_confidence: one UPDATE for wallet_a and one for wallet_b, each
\* adding ESCALATION_BASE * cluster_size / 10.
_escalate_confidence(escalated, wallet_a, wallet_b, cluster_size) ==
    LET escalation == (ESCALATION_BASE * cluster_size) \div 10
        once == [escalated EXCEPT ![wallet_a] = @ + escalation]
    IN [once EXCEPT ![wallet_b] = @ + escalation]

\* The loop of process_event over the events of the other wallets, every
\* pair scoring at least MIN_CORRELATION_SCORE.
RECURSIVE EscalateEach(_, _, _, _)
EscalateEach(escalated, wallet_a, others, cluster_size) ==
    IF others = {} THEN escalated
    ELSE LET other_event == CHOOSE e \in others : TRUE
         IN EscalateEach(_escalate_confidence(escalated, wallet_a,
                                              other_event.wallet_address,
                                              cluster_size),
                         wallet_a, others \ {other_event}, cluster_size)

\* process_event.  `correlated` says whether the pairs of the event with the
\* other wallets' events score at least MIN_CORRELATION_SCORE; the score
\* comes from the history in the database.
process_event(c, event, correlated, first) ==
    LET quiet == [c EXCEPT !.events = @ + 1, !.results = 0,
                           !.escalated = NoEscalation]
        cached == [quiet EXCEPT !._event_cache = _cache_event(@, event)]
        matching_wallets == _find_correlated_wallets(cached._event_cache, event)
        others == {e \in matching_wallets :
                      e.wallet_address # event.wallet_address}
    IN IF event.contract_address \notin MONITORED_PROGRAMS
       THEN quiet
       ELSE IF Cardinality(matching_wallets) < MIN_CLUSTER_SIZE THEN cached
       ELSE IF others = {} \/ ~correlated THEN cached
       ELSE [_update_cluster(cached, event.contract_address,
                             matching_wallets, first)
               EXCEPT !.results = Cardinality(others),
                      !.escalated =
                          EscalateEach(NoEscalation, event.wallet_address,
                                       others, Cardinality(matching_wallets))]

(***************************************************************************)
(* The way of a transaction from the ingestion listener over the Redis     *)
(* channel solana:transactions to CabalCorrelationEngine.process_event.    *)
(* All events are of one wallet; an event is named by its slot, and the    *)
(* chain hands slots to the listener in increasing order.                  *)
(***************************************************************************)
Listeners == {"geyser", "websocket"}

\* What the listener holds as self.publisher: the RedisEventPublisher that
\* _start_ingestion builds (publish_transaction, no publish), or an object
\* with the publish(channel, payload) that SolanaGeyserListener calls.
Publishers == {"RedisEventPublisher", "redis"}

NoTraffic ==
    [listener |-> "none",
     publisher |-> "none",
     produced |-> 0,
     tasks |-> {},
     channel |-> <<>>,
     observed |-> <<>>]

(***************************************************************************)
(* The CEX withdrawal monitor (src/ingestion/cex_monitor.py).  Balances    *)
(* are lamports.  A Python value None is the string "None".                *)
(***************************************************************************)
cex_wallets == {"binance"}

AccountKeys == <<"binance", "user", "other">>

GasTolerance == 10000

Signatures == {"sig1", "sig2"}

ArrayLengths == {2, 3}

PreBalances == {<<110000, 0, 0>>, <<100000, 0, 0>>, <<0, 0, 0>>}

PostBalances ==
    {<<c, u, o>> : c \in {0, 100000}, u \in {0, 100000, 110000},
                   o \in {0, 100000}}

NoTransaction ==
    [_processed_txs |-> {},
     tx_hash |-> "None",
     pre_balances |-> <<>>,
     post_balances |-> <<>>,
     account_keys |-> <<>>,
     warned |-> FALSE,
     events |-> <<>>,
     returned |-> "None"]

WithdrawalEvent(tx_hash, cex_wallet, recipient_wallet, amount) ==
    [tx_hash |-> tx_hash, cex_wallet |-> cex_wallet,
     recipient_wallet |-> recipient_wallet, amount |-> amount]

\* The pairs (i, j) of zip positions that parse_transaction_accounts hands
\* to parse_transfer: a CEX wallet whose balance fell and another account
\* whose balance rose by the same amount, give or take the gas tolerance.
\* zip stops at the shortest array.
Transfers(pre_balances, post_balances, account_keys) ==
    LET n == Min(Len(pre_balances),
                 Min(Len(post_balances), Len(account_keys)))
    IN {p \in (1 .. n) \X (1 .. n) :
          /\ pre_balances[p[1]] > post_balances[p[1]]
          /\ account_keys[p[1]] \in cex_wallets
          /\ p[1] # p[2]
          /\ post_balances[p[2]] > pre_balances[p[2]]
          /\ Abs((pre_balances[p[1]] - post_balances[p[1]])
                 - (post_balances[p[2]] - pre_balances[p[2]]))
                <= GasTolerance}

\* The pairs in the order of the two nested loops.
RECURSIVE InLoopOrder(_)
InLoopOrder(pairs) ==
    IF pairs = {} THEN <<>>
    ELSE LET p == CHOOSE x \in pairs :
                    \A y \in pairs :
                       x[1] < y[1] \/ (x[1] = y[1] /\ x[2] <= y[2])
         IN <<p>> \o InLoopOrder(pairs \ {p})

\* parse_transfer for each pair in turn: None for a tx_hash already in
\* _processed_txs, else an event and the hash is remembered.  (The cache of
\* 10000 hashes never fills here.)
RECURSIVE ParseTransfers(_, _, _, _, _, _)
ParseTransfers(pairs, processed, tx_hash, pre_balances, post_balances, account_keys) ==
    IF pairs = <<>> THEN [events |-> <<>>, _processed_txs |-> processed]
    ELSE LET p == Head(pairs)
             event == WithdrawalEvent(tx_hash, account_keys[p[1]],
                         account_keys[p[2]],
                         post_balances[p[2]] - pre_balances[p[2]])
             skipped == tx_hash \in processed
             rest == ParseTransfers(Tail(pairs), processed \cup {tx_hash},
                         tx_hash, pre_balances, post_balances, account_keys)
         IN [events |-> IF skipped THEN rest.events
                        ELSE <<event>> \o rest.events,
             _processed_txs |-> rest._processed_txs]

\* parse_transaction_accounts.  The length test is the chained comparison
\* len(pre) != len(post) != len(keys), that is len(pre) != len(post) and
\* len(post) != len(keys).  The function body ends after the loops without
\* a return statement, so the caller receives None.
parse_transaction_accounts(processed, tx_hash, pre_balances, post_balances, account_keys) ==
    LET mismatch == /\ Len(pre_balances) # Len(post_balances)
                    /\ Len(post_balances) # Len(account_keys)
        parsed == ParseTransfers(
                      InLoopOrder(Transfers(pre_balances, post_balances,
                                            account_keys)),
                      processed, tx_hash, pre_balances, post_balances,
                      account_keys)
    IN IF mismatch
       THEN [warned |-> TRUE, events |-> <<>>, returned |-> <<>>,
             _processed_txs |-> processed]
       ELSE [warned |-> FALSE, events |-> parsed.events,
             returned |-> "None",
             _processed_txs |-> parsed._processed_txs]

(***************************************************************************)
(* Position sizing: the orchestrator's _calculate_position_size and the    *)
(* circuit breaker's validate_position_size, applied to any confidence     *)
(* and any size.  Confidences are in percent, 125 standing for 1.25.       *)
(***************************************************************************)
Confidences == 0 .. 125

Sizes == {0, 100, 499, 500, 501, 600}

NoSizing ==
    [confidence |-> 0,
     size_sol |-> _calculate_position_size(0),
     accepted |-> validate_position_size(_calculate_position_size(0))]

(***************************************************************************)
(* The key manager (src/execution/key_manager.py).  Bytes are 0 .. 255; a  *)
(* str is the sequence of its character codes.  base64 is modelled bit for *)
(* bit, b64decode as the lenient decoder that Python's base64.b64decode    *)
(* is by default.  AESGCM is an ideal authenticated cipher: the ciphertext *)
(* is the plaintext shifted by a pad taken from the nonce, and the tag is  *)
(* an injective function of nonce and ciphertext, so that no other         *)
(* (nonce, ciphertext, tag) of these lengths verifies.                     *)
(***************************************************************************)
NONCE_SIZE == 12

TAG_SIZE == 16

BASE64_PAD == 61

PrivateKeys == {<<>>, <<7>>, <<201>>, <<7, 200>>, <<7, 200, 33>>}

Nonces ==
    {[i \in 1 .. NONCE_SIZE |-> (17 * i + d) % 256] : d \in {0, 1, 6}}

\* The character of a 6-bit value, and the value of a character (64 for a
\* character outside the alphabet).
Base64Char(v) ==
    IF v < 26 THEN 65 + v
    ELSE IF v < 52 THEN 97 + (v - 26)
    ELSE IF v < 62 THEN 48 + (v - 52)
    ELSE IF v = 62 THEN 43 ELSE 47

Base64Value(ch) ==
    IF ch >= 65 /\ ch <= 90 THEN ch - 65
    ELSE IF ch >= 97 /\ ch <= 122 THEN ch - 97 + 26
    ELSE IF ch >= 48 /\ ch <= 57 THEN ch - 48 + 52
    ELSE IF ch = 43 THEN 62
    ELSE IF ch = 47 THEN 63 ELSE 64

RECURSIVE b64encode(_)
b64encode(data) ==
    IF Len(data) = 0 THEN <<>>
    ELSE IF Len(data) = 1
    THEN <<Base64Char(data[1] \div 4), Base64Char((data[1] % 4) * 16),
           BASE64_PAD, BASE64_PAD>>
    ELSE IF Len(data) = 2
    THEN <<Base64Char(data[1] \div 4),
           Base64Char((data[1] % 4) * 16 + data[2] \div 16),
           Base64Char((data[2] % 16) * 4), BASE64_PAD>>
    ELSE <<Base64Char(data[1] \div 4),
           Base64Char((data[1] % 4) * 16 + data[2] \div 16),
           Base64Char((data[2] % 16) * 4 + data[3] \div 64),
           Base64Char(data[3] % 64)>>
         \o b64encode(SubSeq(data, 4, Len(data)))

\* binascii.a2b_base64 without strict_mode, as the result of its loop over
\* the characters: characters outside the alphabet are skipped; the loop
\* ends at a pad that completes a quad (quad_pos >= 2 and quad_pos plus the
\* pads seen since the last alphabet character reach 4); the bits of the
\* last character that do not fill a byte are dropped; running out of
\* input inside a quad is an error.
a2b_base64(ascii_data) ==
    LET n == Len(ascii_data)
        InAlphabet(j) == Base64Value(ascii_data[j]) < 64
        quad_pos(i) == Cardinality({j \in 1 .. i - 1 : InAlphabet(j)}) % 4
        pads(i) ==
            Cardinality({j \in 1 .. i :
                /\ ascii_data[j] = BASE64_PAD
                /\ \A k \in j .. i : ~InAlphabet(k)})
        done == {i \in 1 .. n :
                    /\ ascii_data[i] = BASE64_PAD
                    /\ quad_pos(i) >= 2
                    /\ quad_pos(i) + pads(i) >= 4}
        stop == IF done = {} THEN n
                ELSE CHOOSE i \in done : \A j \in done : i <= j
        chars == SelectSeq(SubSeq(ascii_data, 1, stop),
                           LAMBDA ch : Base64Value(ch) < 64)
        v == [j \in 1 .. Len(chars) |-> Base64Value(chars[j])]
        bin_len == (Len(v) * 6) \div 8
        bin_data ==
            [k \in 1 .. bin_len |->
                LET q == 4 * ((k - 1) \div 3) IN
                IF (k - 1) % 3 = 0 THEN v[q + 1] * 4 + v[q + 2] \div 16
                ELSE IF (k - 1) % 3 = 1
                THEN (v[q + 2] % 16) * 16 + v[q + 3] \div 4
                ELSE (v[q + 3] % 4) * 64 + v[q + 4]]
    IN [ok |-> done # {} \/ Len(v) % 4 = 0, data |-> bin_data]

\* base64.b64decode of a str: a character outside ASCII is a ValueError.
b64decode(s) ==
    IF \E i \in 1 .. Len(s) : s[i] >= 128
    THEN [ok |-> FALSE, data |-> <<>>]
    ELSE a2b_base64(s)

\* The ideal cipher standing for AESGCM(self._master_key).
Tag(nonce, ciphertext) ==
    LET sum[k \in 0 .. NONCE_SIZE] ==
            IF k = 0 THEN 0 ELSE sum[k - 1] + nonce[k]
        ct[k \in 0 .. Len(ciphertext)] ==
            IF k = 0 THEN 0 ELSE ct[k - 1] + ciphertext[k]
    IN [i \in 1 .. TAG_SIZE |->
          IF i <= NONCE_SIZE THEN (nonce[i] + 92) % 256
          ELSE IF i < TAG_SIZE
               THEN IF i - NONCE_SIZE <= Len(ciphertext)
                    THEN ciphertext[i - NONCE_SIZE] ELSE 0
               ELSE (sum[NONCE_SIZE] + ct[Len(ciphertext)]
                        + Len(ciphertext)) % 256]

AESGCM_encrypt(nonce, data) ==
    LET ciphertext ==
            [i \in 1 .. Len(data) |->
                (data[i] + nonce[((i - 1) % NONCE_SIZE) + 1]) % 256]
    IN ciphertext \o Tag(nonce, ciphertext)

\* InvalidTag is ok = FALSE.
AESGCM_decrypt(nonce, data) ==
    LET n == Len(data) - TAG_SIZE
        ciphertext == SubSeq(data, 1, n)
        tag == SubSeq(data, n + 1, Len(data))
    IN IF n < 0 \/ tag # Tag(nonce, ciphertext)
       THEN [ok |-> FALSE, data |-> <<>>]
       ELSE [ok |-> TRUE,
             data |-> [i \in 1 .. n |->
                         (ciphertext[i] + 256
                             - nonce[((i - 1) % NONCE_SIZE) + 1]) % 256]]

\* encrypt_key with the nonce that secrets.token_bytes drew: raised says
\* KeyEncryptionError.
encrypt_key(private_key, nonce) ==
    IF private_key = <<>>
    THEN [raised |-> TRUE, value |-> <<>>]
    ELSE [raised |-> FALSE,
          value |-> b64encode(nonce \o AESGCM_encrypt(nonce, private_key))]

\* decrypt_key: every exception leaves as KeyEncryptionError.
decrypt_key(encrypted) ==
    LET encrypted_data == b64decode(encrypted)
        nonce == SubSeq(encrypted_data.data, 1, NONCE_SIZE)
        ciphertext == SubSeq(encrypted_data.data, NONCE_SIZE + 1,
                             Len(encrypted_data.data))
        private_key == AESGCM_decrypt(nonce, ciphertext)
    IN IF encrypted = <<>> THEN [raised |-> TRUE, value |-> <<>>]
       ELSE IF ~encrypted_data.ok THEN [raised |-> TRUE, value |-> <<>>]
       ELSE IF Len(encrypted_data.data) < NONCE_SIZE + TAG_SIZE
       THEN [raised |-> TRUE, value |-> <<>>]
       ELSE IF ~private_key.ok THEN [raised |-> TRUE, value |-> <<>>]
       ELSE [raised |-> FALSE, value |-> private_key.data]

\* The character code with one bit flipped.
FlippedBit(ch, bit) ==
    IF (ch \div (2 ^ bit)) % 2 = 1 THEN ch - 2 ^ bit ELSE ch + 2 ^ bit

NoBlob ==
    [phase |-> "none",
     private_key |-> <<>>,
     blob |-> <<>>,
     flipped |-> -1,
     result |-> [raised |-> FALSE, value |-> <<>>]]

\* SimulationResult.is_tradeable
is_tradeable(r) ==
    /\ r.risk_classification \in {"safe", "caution"}
    /\ ~r.is_honeypot
    /\ ~r.sell_blocked

\* What "SELECT is_honeypot FROM sim_results ... LIMIT 1" gives: no recent
\* row, an exception, or the row _persist_result wrote for the last result.
SimRows == {"none", "raises", "recent"}

\* check_honeypot: the is_honeypot of a recent row, else of the result of
\* simulate_token(token_mint), which is the cached result while it is
\* younger than _cache_ttl_seconds (hit).
check_honeypot(last_result, row, hit, buy, buy_tax, sell, sell_tax) ==
    IF row = "recent"
    THEN [result |-> last_result, ret |-> last_result.is_honeypot]
    ELSE LET result == IF hit /\ last_result.cached
                       THEN last_result
                       ELSE simulate_token(buy, buy_tax, sell, sell_tax)
         IN [result |-> result, ret |-> result.is_honeypot]

(***************************************************************************)
(* CEXWithdrawalMonitor.parse_transfer and its record of processed         *)
(* transactions when that record fills.  Transaction ids are numbers here. *)
(***************************************************************************)
\* CEXWithdrawalMonitor._max_cache_size, and the number of entries that
\* parse_transfer discards when the set grows beyond it.
_max_cache_size == 10000

EvictionBatch == 1000

\* The number of ids that no call has seen at the start.
MaxFresh == 3

\* _processed_txs is a Python set of strings: list(set) walks its hash
\* table, in an order fixed by the hashes of the members, which change
\* with the hash seed of the interpreter.  The hash of an id is taken here
\* as id * seed modulo a prime above every id; seed 1 walks the ids in
\* increasing order and seed HashModulus - 1 in decreasing order.
HashModulus == _max_cache_size + 7

HashSeeds == {1, 7, HashModulus - 1}

hash(tx_hash, seed) == (tx_hash * seed) % HashModulus

\* list(txs)[:n]: the n members that come first in the walk.  The n-th
\* hash is at least n, and above n by at most the number of absent ids.
FirstOfSet(txs, seed, n) ==
    IF Cardinality(txs) <= n THEN txs
    ELSE LET nth == CHOOSE h \in n .. n + HashModulus - 1 - Cardinality(txs) :
                       Cardinality({x \in txs : hash(x, seed) <= h}) = n
         IN {x \in txs : hash(x, seed) <= nth}

\* parse_transfer: None (no event) for a tx_hash held in _processed_txs or
\* a sender that is no CEX wallet; else the event, the hash is added and,
\* the set being then larger than _max_cache_size, the first EvictionBatch
\* members of list(set) are discarded.
parse_transfer(processed, tx_hash, from_address, to_address, amount_lamports, seed) ==
    IF tx_hash \in processed \/ from_address \notin cex_wallets
    THEN [event |-> <<>>, _processed_txs |-> processed]
    ELSE LET added == processed \cup {tx_hash}
         IN [event |-> <<WithdrawalEvent(tx_hash, from_address, to_address,
                                         amount_lamports)>>,
             _processed_txs |->
                 IF Cardinality(added) > _max_cache_size
                 THEN added \ FirstOfSet(added, seed, EvictionBatch)
                 ELSE added]

(***************************************************************************)
(* TradeForensics.analyze_failure.  Losses and slippages are in percent,   *)
(* -80 standing for Decimal("-0.80").                                      *)
(***************************************************************************)
\* slippage_actual = None, slippage_expected = None.
NoSlippage == -1

\* The newest sim_results row of the token: none, or its is_honeypot.
SimRuns == {"none", "safe", "honeypot"}

\* bool(x) of an optional Decimal: None and Decimal(0) are false.
Given(slippage) == slippage # NoSlippage /\ slippage # 0

NoReport ==
    [loss_pct |-> 0, sim_results |-> "none",
     slippage_actual |-> NoSlippage, slippage_expected |-> NoSlippage,
     failure_category |-> "none", was_simulation_run |-> FALSE,
     simulation_result |-> "None", saved |-> FALSE]

ForensicReport(failure_category, was_simulation_run, simulation_result) ==
    [failure_category |-> failure_category,
     was_simulation_run |-> was_simulation_run,
     simulation_result |-> simulation_result]

\* analyze_failure: one if / elif / elif chain over a report that starts as
\* UNKNOWN; the branch taken is the first whose test is true, whether or
\* not it then sets a category.  The trade_id is a UUID string.
analyze_failure(loss_pct, sim_results, slippage_actual, slippage_expected) ==
    IF loss_pct <= -80
    THEN IF sim_results # "none"
         THEN ForensicReport(IF sim_results = "safe" THEN "rug_pull"
                             ELSE "simulation_miss",
                             TRUE, sim_results)
         ELSE ForensicReport("rug_pull", FALSE, "None")
    ELSE IF Given(slippage_actual) /\ Given(slippage_expected)
    THEN IF slippage_actual - slippage_expected > 5
         THEN ForensicReport("slippage", FALSE, "None")
         ELSE ForensicReport("unknown", FALSE, "None")
    ELSE IF -30 < loss_pct /\ loss_pct <= -10
    THEN ForensicReport("bad_signal", FALSE, "None")
    ELSE ForensicReport("unknown", FALSE, "None")

InitComponents ==
    /\ sim_result = _classify_risk(SimulationResult)
    /\ jito = NoBundle
    /\ matcher = NoMatch
    /\ correlation = NoClusters
    /\ bus = NoTraffic
    /\ cex = NoTransaction
    /\ sizing = NoSizing
    /\ vault = NoBlob
    /\ report = NoReport

Init ==
    /\ state = NoState
    /\ db = LockdownState
    /\ now = 0
    /\ last = NoCall
    /\ trade_log = <<>>
    /\ active_positions = <<>>
    /\ wiring \in Wirings
    /\ store_errors = 0
    /\ tasks = [t \in Tasks |-> IdleTask]
    /\ exit_strategy = ExitStrategy
    /\ legs = <<>>
    /\ exit_result = NoResult
    /\ pool = [w \in Wallets |-> FreshWallet]
    /\ callers = [c \in Callers |-> NoWallet]
    /\ distributions = <<>>
    /\ InitComponents

\* Whether the store answers during a call: ok, or one more error.
Store(ok) ==
    /\ ok \/ store_errors < MaxStoreErrors
    /\ store_errors' = IF ok THEN store_errors ELSE store_errors + 1

(***************************************************************************)
(* process_signal, one asyncio task per call.                              *)
(***************************************************************************)
\* A caller (LogicEngine._execute_signal, SolanaIntelEngine.process_signal)
\* hands signal s to process_signal.
Deliver(t, s) ==
    /\ tasks[t].pc = "idle"
    /\ tasks' = [tasks EXCEPT ![t] = [IdleTask EXCEPT !.pc = "can_trade",
                                                      !.signal = s]]
    /\ UNCHANGED <<state, db, now, last, trade_log, active_positions, wiring,
                   store_errors>>
    /\ UNCHANGED elsewhere

\* Step 1: breaker.can_trade()
StepCanTrade(t, ok) ==
    /\ Store(ok)
    /\ tasks[t].pc = "can_trade"
    /\ LET r == can_trade(state, db, now, ok) IN
       /\ state' = r.state
       /\ db' = r.db
       /\ last' = Call("can_trade", r.ret,
                       IF r.unlocked THEN "implicit_unlock"
                       ELSE LoadNote(state, ok))
       /\ tasks' = [tasks EXCEPT ![t] =
             IF r.ret
             THEN [@ EXCEPT !.pc = "preflight", !.calls = @ \cup {"can_trade"}]
             ELSE Rejected(@, {"can_trade"}, ErrBreaker)]
    /\ UNCHANGED <<now, trade_log, active_positions, wiring>>
    /\ UNCHANGED elsewhere

\* Steps 2-6: check_honeypot, validate_position_size, get_best_route,
\* get_available_wallet; none of them touches the breaker, the trade_log or
\* the position book.
Preflight(task, honeypot, has_route, has_wallet) ==
    LET size == _calculate_position_size(confidence(task.signal)) IN
    IF honeypot
    THEN Rejected(task, {"check_honeypot"}, ErrHoneypot)
    ELSE IF ~validate_position_size(size)
    THEN Rejected(task, {"check_honeypot", "validate_position_size"}, ErrSize)
    ELSE IF ~has_route
    THEN Rejected(task, {"check_honeypot", "validate_position_size",
                         "get_best_route"}, ErrRoute)
    ELSE [task EXCEPT !.pc = "log_entry", !.has_wallet = has_wallet,
                      !.calls = @ \cup {"check_honeypot",
                                        "validate_position_size",
                                        "get_best_route",
                                        "get_available_wallet"}]

StepPreflight(t, honeypot, has_route, has_wallet) ==
    /\ tasks[t].pc = "preflight"
    /\ tasks' = [tasks EXCEPT ![t] =
                    Preflight(@, honeypot, has_route, has_wallet)]
    /\ UNCHANGED <<state, db, now, last, trade_log, active_positions, wiring,
                   store_errors>>
    /\ UNCHANGED elsewhere

\* Step 7, first half: trade_id = uuid4(); _log_trade_entry(...).  The
\* argument sub_wallet.get("address", "") is evaluated first and raises on
\* None and on a SubWallet; every exception ends in the except clause.
StepLogEntry(t, ok) ==
    /\ Store(ok)
    /\ tasks[t].pc = "log_entry"
    /\ LET task == tasks[t]
           size == _calculate_position_size(confidence(task.signal))
           id == Len(trade_log) + 1
       IN
       IF ~task.has_wallet
       THEN /\ tasks' = [tasks EXCEPT ![t] = Rejected(@, {}, ErrNoWallet)]
            /\ UNCHANGED trade_log
       ELSE IF wiring.wallet = "SubWallet"
       THEN /\ tasks' = [tasks EXCEPT ![t] = Rejected(@, {}, ErrWalletObject)]
            /\ UNCHANGED trade_log
       ELSE IF ~ok
       THEN /\ tasks' = [tasks EXCEPT ![t] =
                            Rejected(@, {"_log_trade_entry"}, ErrStore)]
            /\ UNCHANGED trade_log
       ELSE /\ Len(trade_log) < MaxTrades
            /\ trade_log' = _log_trade_entry(trade_log, id, task.signal, size)
            /\ tasks' = [tasks EXCEPT ![t] =
                  [@ EXCEPT !.pc = "record", !.trade_id = id,
                            !.calls = @ \cup {"_log_trade_entry"}]]
    /\ UNCHANGED <<state, db, now, last, active_positions, wiring>>
    /\ UNCHANGED elsewhere

\* Step 7, second half: breaker.record_position_opened(size), then the
\* position dict is built (route.get(...) raises on a Route,
\* sub_wallet.wallet_id raises on a dict) and stored in the book.
StepRecordOpened(t, ok) ==
    /\ Store(ok)
    /\ tasks[t].pc = "record"
    /\ LET task == tasks[t]
           size == _calculate_position_size(confidence(task.signal))
           r == record_position_opened(state, db, ok, size)
       IN
       /\ state' = r.state
       /\ db' = r.db
       /\ last' = Call("record_position_opened", TRUE, LoadNote(state, ok))
       /\ IF wiring.route = "Route"
          THEN /\ tasks' = [tasks EXCEPT ![t] =
                   Rejected(@, {"record_position_opened"}, ErrRouteObject)]
               /\ UNCHANGED active_positions
          ELSE IF wiring.wallet = "dict"
          THEN /\ tasks' = [tasks EXCEPT ![t] =
                   Rejected(@, {"record_position_opened"}, ErrWalletDict)]
               /\ UNCHANGED active_positions
          ELSE /\ active_positions' =
                   RegisterPosition(active_positions, task.trade_id,
                                    task.signal, size)
               /\ tasks' = [tasks EXCEPT ![t] =
                   [@ EXCEPT !.pc = "done", !.success = TRUE,
                             !.calls = @ \cup {"record_position_opened",
                                               "register_position"}]]
    /\ UNCHANGED <<now, trade_log, wiring>>
    /\ UNCHANGED elsewhere

\* The caller has read the ExecutionResult.
Return(t) ==
    /\ tasks[t].pc = "done"
    /\ tasks' = [tasks EXCEPT ![t] = IdleTask]
    /\ UNCHANGED <<state, db, now, last, trade_log, active_positions, wiring,
                   store_errors>>
    /\ UNCHANGED elsewhere

(***************************************************************************)
(* The CircuitBreaker's other callers.                                     *)
(***************************************************************************)
\* execution_loop: "if not await self.circuit_breaker.can_trade()"
CanTrade(ok) ==
    /\ Store(ok)
    /\ LET r == can_trade(state, db, now, ok) IN
       /\ state' = r.state
       /\ db' = r.db
       /\ last' = Call("can_trade", r.ret,
                       IF r.unlocked THEN "implicit_unlock"
                       ELSE LoadNote(state, ok))
    /\ UNCHANGED <<now, trade_log, active_positions, wiring, tasks>>
    /\ UNCHANGED elsewhere

RecordTradeResult(ok, pnl, is_win, position_size) ==
    /\ Store(ok)
    /\ Abs(EnsureLoaded(state, db, ok).daily_pnl + pnl) <= MaxAbsPnl
    /\ is_win \/ EnsureLoaded(state, db, ok).consecutive_losses < MaxLossStreak
    /\ EnsureLoaded(state, db, ok).total_exposure - position_size
          >= -MaxNegExposure
    /\ LET r == record_trade_result(state, db, now, ok, pnl, is_win,
                                    position_size) IN
       /\ state' = r.state
       /\ db' = r.db
       /\ last' = Call("record_trade_result", r.ret, LoadNote(state, ok))
    /\ UNCHANGED <<now, trade_log, active_positions, wiring, tasks>>
    /\ UNCHANGED elsewhere

PanicSellAll(ok) ==
    /\ Store(ok)
    /\ LET r == panic_sell_all(state, db, trade_log, now, ok) IN
       /\ state' = r.state
       /\ db' = r.db
       /\ trade_log' = r.log
       /\ last' = Call("panic_sell_all", ~r.raised,
                       IF r.raised THEN "raised" ELSE "")
    /\ UNCHANGED <<now, active_positions, wiring, tasks>>
    /\ UNCHANGED elsewhere

ForceUnlock(ok) ==
    /\ Store(ok)
    /\ LET r == force_unlock(state, db, ok) IN
       /\ state' = r.state
       /\ db' = r.db
       /\ last' = Call("force_unlock", TRUE, LoadNote(state, ok))
    /\ UNCHANGED <<now, trade_log, active_positions, wiring, tasks>>
    /\ UNCHANGED elsewhere

ResetDailyStats(ok) ==
    /\ Store(ok)
    /\ LET r == reset_daily_stats(state, db, ok) IN
       /\ state' = r.state
       /\ db' = r.db
       /\ last' = Call("reset_daily_stats", TRUE, LoadNote(state, ok))
    /\ UNCHANGED <<now, trade_log, active_positions, wiring, tasks>>
    /\ UNCHANGED elsewhere

\* An hour passes.
Tick ==
    /\ now < MaxTime
    /\ now' = now + 1
    /\ UNCHANGED <<state, db, last, trade_log, active_positions, wiring,
                   store_errors, tasks>>
    /\ UNCHANGED elsewhere

\* The process is started again: the breaker and the orchestrator are
\* constructed anew as before, the store keeps its rows.
Restart ==
    /\ state' = NoState
    /\ active_positions' = <<>>
    /\ tasks' = [t \in Tasks |-> IdleTask]
    /\ last' = NoCall
    /\ UNCHANGED <<db, now, trade_log, wiring, store_errors>>
    /\ UNCHANGED elsewhere

\* No process_signal is running.
Quiet == \A t \in Tasks : tasks[t].pc = "idle"

(***************************************************************************)
(* The orchestrator: concurrent process_signal tasks for two signals on    *)
(* different tokens, and a panic sell.                                     *)
(***************************************************************************)
Next ==
    \/ \E t \in Tasks, s \in {1, 2} : Deliver(t, s)
    \/ \E t \in Tasks, ok \in BOOLEAN : StepCanTrade(t, ok)
    \/ \E t \in Tasks, honeypot \in BOOLEAN, has_route \in BOOLEAN,
          has_wallet \in BOOLEAN :
            StepPreflight(t, honeypot, has_route, has_wallet)
    \/ \E t \in Tasks, ok \in BOOLEAN : StepLogEntry(t, ok)
    \/ \E t \in Tasks, ok \in BOOLEAN : StepRecordOpened(t, ok)
    \/ \E t \in Tasks : Return(t)
    \/ \E ok \in BOOLEAN : PanicSellAll(ok)

Spec == Init /\ [][Next]_vars

(***************************************************************************)
(* The breaker with all its callers and the clock; signals (one of them    *)
(* with a confidence above 1) are processed one at a time by an            *)
(* orchestrator whose collaborators let an entry complete.                 *)
(***************************************************************************)
InitRisk == Init /\ wiring = [route |-> "dict", wallet |-> "duck"]

NextRisk ==
    \/ \E s \in {1, 3} : Quiet /\ Deliver(1, s)
    \/ \E ok \in BOOLEAN : StepCanTrade(1, ok)
    \/ \E honeypot \in BOOLEAN, has_route \in BOOLEAN,
          has_wallet \in BOOLEAN :
            StepPreflight(1, honeypot, has_route, has_wallet)
    \/ \E ok \in BOOLEAN : StepLogEntry(1, ok)
    \/ \E ok \in BOOLEAN : StepRecordOpened(1, ok)
    \/ Return(1)
    \/ \E ok \in BOOLEAN : Quiet /\ CanTrade(ok)
    \/ \E ok \in BOOLEAN, pnl \in PnlValues, is_win \in BOOLEAN,
          position_size \in PositionSizes :
            Quiet /\ RecordTradeResult(ok, pnl, is_win, position_size)
    \/ \E ok \in BOOLEAN : Quiet /\ PanicSellAll(ok)
    \/ \E ok \in BOOLEAN : Quiet /\ ForceUnlock(ok)
    \/ \E ok \in BOOLEAN : Quiet /\ ResetDailyStats(ok)
    \/ Quiet /\ Tick
    \/ Quiet /\ Restart

SpecRisk == InitRisk /\ [][NextRisk]_vars

(***************************************************************************)
(* The breaker alone, called directly: positions are opened and closed     *)
(* by record_position_opened and record_trade_result, the latter also with *)
(* its default position_size of 0 and on a breaker that counts no open     *)
(* position.                                                               *)
(***************************************************************************)
RecordPositionOpened(ok, size_sol) ==
    /\ Store(ok)
    /\ EnsureLoaded(state, db, ok).open_position_count < MaxTrades
    /\ EnsureLoaded(state, db, ok).total_exposure + size_sol
          <= MaxTrades * size_sol
    /\ LET r == record_position_opened(state, db, ok, size_sol) IN
       /\ state' = r.state
       /\ db' = r.db
       /\ last' = Call("record_position_opened", TRUE, LoadNote(state, ok))
    /\ UNCHANGED <<now, trade_log, active_positions, wiring, tasks>>
    /\ UNCHANGED elsewhere

NextBreaker ==
    \/ CanTrade(TRUE)
    \/ RecordPositionOpened(TRUE, 300)
    \/ \E pnl \in PnlValues, is_win \in BOOLEAN,
          position_size \in {0, 300} :
            RecordTradeResult(TRUE, pnl, is_win, position_size)
    \/ PanicSellAll(TRUE)
    \/ ForceUnlock(TRUE)
    \/ ResetDailyStats(TRUE)
    \/ Tick
    \/ Restart

SpecBreaker == InitRisk /\ [][NextBreaker]_vars

(***************************************************************************)
(* check_exits: the periodic loop over the position book, one position at  *)
(* a time, with the price the feed gives for it.                           *)
(***************************************************************************)
MaxLegs == 3
MaxSlot == 4
MaxEvents == 5
MaxPosts == 4

CheckExit(trade_id, current_price, outcome, ok) ==
    /\ trade_id \in DOMAIN active_positions
    /\ Len(legs) < MaxLegs
    /\ Store(ok)
    /\ LET position == active_positions[trade_id]
           exit == ExitDecision(position, current_price, exit_strategy)
           r == _execute_exit(active_positions, trade_log, trade_id,
                              exit.tier, exit.sell_pct, outcome,
                              wiring.route, ok)
       IN
       /\ exit.tier # "None"
       /\ active_positions' = r.book
       /\ trade_log' = r.log
       /\ exit_result' = r.result
       /\ legs' = IF r.submitted
                  THEN Append(legs, [trade_id |-> trade_id,
                                     tier |-> exit.tier,
                                     price |-> current_price])
                  ELSE legs
    /\ UNCHANGED <<state, db, now, last, wiring, tasks, exit_strategy>>
    /\ UNCHANGED <<pool, callers, distributions>>
    /\ UNCHANGED components

\* One entry has completed: an Open row, the position in the book (bought
\* for 100 token units, or for none when the route carried no outAmount)
\* and the breaker's counters.
InitExit ==
    /\ state = [LockdownState EXCEPT !.open_position_count = 1,
                                     !.total_exposure = 300]
    /\ db = state
    /\ now = 0
    /\ last = NoCall
    /\ trade_log = _log_trade_entry(<<>>, 1, 1, 300)
    /\ \E amount \in {0, 100} :
          active_positions =
             [RegisterPosition(<<>>, 1, 1, 300) EXCEPT
                 ![1].token_amount = amount]
    /\ wiring \in {[route |-> "Route", wallet |-> "duck"],
                   [route |-> "dict", wallet |-> "duck"]}
    /\ store_errors = 0
    /\ tasks = [t \in Tasks |-> IdleTask]
    /\ exit_strategy \in ExitStrategies
    /\ legs = <<>>
    /\ exit_result = NoResult
    /\ pool = [w \in Wallets |-> FreshWallet]
    /\ callers = [c \in Callers |-> NoWallet]
    /\ distributions = <<>>
    /\ InitComponents

NextExit ==
    \E trade_id \in {1}, current_price \in Prices \cup {NoPrice},
       outcome \in ExitOutcomes, ok \in BOOLEAN :
          CheckExit(trade_id, current_price, outcome, ok)

SpecExit == InitExit /\ [][NextExit]_vars

(***************************************************************************)
(* The sub-wallet pool with two callers that take a wallet and later mark  *)
(* it used, a caller of distribute_trade, and the clock.                   *)
(***************************************************************************)
\* A caller with no wallet in hand calls get_available_wallet.
Acquire(c, order, fetch_ok, rotate_ok) ==
    /\ callers[c] = NoWallet
    /\ Store(fetch_ok /\ rotate_ok)
    /\ LET r == get_available_wallet(pool, order, fetch_ok, rotate_ok) IN
       /\ pool' = r.pool
       /\ callers' = [callers EXCEPT ![c] = r.wallet]
    /\ UNCHANGED <<state, db, now, last, trade_log, active_positions,
                   wiring, tasks, exit_strategy, legs, exit_result,
                   distributions>>
    /\ UNCHANGED components

\* The caller passes the wallet it was handed to mark_wallet_used.
MarkWalletUsed(c, ok) ==
    /\ callers[c] # NoWallet
    /\ Store(ok)
    /\ pool' = mark_wallet_used(pool, callers[c].wallet_id, now, ok)
    /\ callers' = [callers EXCEPT ![c] = NoWallet]
    /\ UNCHANGED <<state, db, now, last, trade_log, active_positions,
                   wiring, tasks, exit_strategy, legs, exit_result,
                   distributions>>
    /\ UNCHANGED components

DistributeTrade(order, total_amount, config_split_count, variances) ==
    /\ LET r == distribute_trade(pool, order, total_amount,
                                 config_split_count, variances) IN
       /\ pool' = r.pool
       /\ distributions' = r.distributions
    /\ UNCHANGED <<state, db, now, last, trade_log, active_positions,
                   wiring, store_errors, tasks, exit_strategy, legs,
                   exit_result, callers>>
    /\ UNCHANGED components

\* Wallets as created, each funded (5) or not (0) by update_balance.
InitPool ==
    /\ state = NoState
    /\ db = LockdownState
    /\ now = 0
    /\ last = NoCall
    /\ trade_log = <<>>
    /\ active_positions = <<>>
    /\ wiring = [route |-> "dict", wallet |-> "duck"]
    /\ store_errors = 0
    /\ tasks = [t \in Tasks |-> IdleTask]
    /\ exit_strategy = ExitStrategy
    /\ legs = <<>>
    /\ exit_result = NoResult
    /\ \E funded \in SUBSET Wallets :
          pool = [w \in Wallets |->
                    [FreshWallet EXCEPT
                        !.balance_sol = IF w \in funded THEN 5 ELSE 0]]
    /\ callers = [c \in Callers |-> NoWallet]
    /\ distributions = <<>>
    /\ InitComponents

NextPool ==
    \/ \E c \in Callers, order \in RowOrders,
          fetch_ok \in BOOLEAN, rotate_ok \in BOOLEAN :
            Acquire(c, order, fetch_ok, rotate_ok)
    \/ \E c \in Callers, ok \in BOOLEAN : MarkWalletUsed(c, ok)
    \/ Tick

SpecPool == InitPool /\ [][NextPool]_vars

(***************************************************************************)
(* distribute_trade applied to pools whose wallets have been used (at time *)
(* 0), retired once used max_trades_before_rotation times, and funded.     *)
(***************************************************************************)
InitDistribute ==
    /\ state = NoState
    /\ db = LockdownState
    /\ now = MaxTime
    /\ last = NoCall
    /\ trade_log = <<>>
    /\ active_positions = <<>>
    /\ wiring = [route |-> "dict", wallet |-> "duck"]
    /\ store_errors = 0
    /\ tasks = [t \in Tasks |-> IdleTask]
    /\ exit_strategy = ExitStrategy
    /\ legs = <<>>
    /\ exit_result = NoResult
    /\ \E used \in [Wallets -> 0 .. max_trades_before_rotation],
          retired \in SUBSET Wallets, balance \in {0, 5} :
          /\ \A w \in retired : used[w] >= max_trades_before_rotation
          /\ pool = [w \in Wallets |->
                       [balance_sol |-> IF w = "w3" THEN balance ELSE 5,
                        is_active |-> w \notin retired,
                        is_retired |-> w \in retired,
                        total_trades |-> used[w],
                        last_used |-> IF used[w] = 0 THEN NoTime ELSE 0]]
    /\ callers = [c \in Callers |-> NoWallet]
    /\ distributions = <<>>
    /\ InitComponents

NextDistribute ==
    \E order \in RowOrders, total_amount \in TotalAmounts,
       config_split_count \in SplitCounts,
       variances \in VarianceDraws :
          DistributeTrade(order, total_amount, config_split_count, variances)

SpecDistribute == InitDistribute /\ [][NextDistribute]_vars

(***************************************************************************)
(* The simulator: simulate_token with every outcome of its legs, and       *)
(* SimulationResult built directly from field values.                      *)
(***************************************************************************)
SimulateToken(force_refresh, buy, buy_tax, sell, sell_tax) ==
    /\ sim_result' = IF ~force_refresh /\ sim_result.cached
                     THEN sim_result
                     ELSE simulate_token(buy, buy_tax, sell, sell_tax)
    /\ UNCHANGED <<pipeline, execution>>
    /\ UNCHANGED <<jito, matcher, correlation, bus, cex, sizing, vault, report>>

\* SimulationResult(...) with the given fields; __post_init__ classifies.
Construct(buy_tax, sell_tax, transfer_blocked, sell_blocked, sell_success, sell_error) ==
    /\ sim_result' = _classify_risk(
          [SimulationResult EXCEPT !.buy_tax = buy_tax,
                                   !.sell_tax = sell_tax,
                                   !.transfer_blocked = transfer_blocked,
                                   !.sell_blocked = sell_blocked,
                                   !.sell_success = sell_success,
                                   !.sell_error = sell_error])
    /\ UNCHANGED <<pipeline, execution>>
    /\ UNCHANGED <<jito, matcher, correlation, bus, cex, sizing, vault, report>>

NextSim ==
    \/ \E force_refresh \in BOOLEAN, buy \in BuyOutcomes,
          buy_tax \in QuotedTaxes, sell \in SellOutcomes,
          sell_tax \in QuotedTaxes :
            SimulateToken(force_refresh, buy, buy_tax, sell, sell_tax)
    \/ \E buy_tax \in {NoTax, 0, 4, 5}, sell_tax \in TaxValues,
          transfer_blocked \in BOOLEAN, sell_blocked \in BOOLEAN,
          sell_success \in {"None", "True", "False"},
          sell_error \in {"None", "", "error"} :
            Construct(buy_tax, sell_tax, transfer_blocked, sell_blocked, sell_success, sell_error)

SpecSim == InitRisk /\ [][NextSim]_vars

(***************************************************************************)
(* Callers of submit_bundle with bundles of every size and a block engine  *)
(* answering in every way.                                                 *)
(***************************************************************************)
SubmitBundle(transactions, response) ==
    /\ jito.posts < MaxPosts
    /\ LET r == submit_bundle(transactions, response) IN
       jito' = [posts |-> jito.posts + r.posts,
                transactions |-> transactions,
                result |-> r.result]
    /\ UNCHANGED <<pipeline, execution>>
    /\ UNCHANGED <<sim_result, matcher, correlation, bus, cex, sizing, vault,
                   report>>

NextJito ==
    \E transactions \in 0 .. max_transactions + 2, response \in Responses :
        SubmitBundle(transactions, response)

SpecJito == InitRisk /\ [][NextJito]_vars

(***************************************************************************)
(* The matcher: process_withdrawal over the rows of tx_events, and         *)
(* _calculate_match_score applied to any withdrawal and wallet.            *)
(***************************************************************************)
\* max() keeps the first of the best pairs, the rows being ordered by
\* event_time.
BestMatch(matches, amount) ==
    CHOOSE best \in matches :
        \A w \in matches :
            \/ _calculate_match_score(amount, w) < _calculate_match_score(amount, best)
            \/ /\ _calculate_match_score(amount, w) = _calculate_match_score(amount, best)
               /\ best.first_funded_time <= w.first_funded_time

\* persist_ok: _persist_match stores the match; when it raises,
\* process_withdrawal raises and returns no match.
ProcessWithdrawal(amount, rows, ok, persist_ok) ==
    /\ LET candidates == _get_fresh_wallet_candidates(rows, amount, ok)
           matches == scored_matches(candidates, amount)
       IN
       IF matches = {}
       THEN matcher' = [NoMatch EXCEPT !.call = "process_withdrawal",
                                       !.amount = amount]
       ELSE LET best == BestMatch(matches, amount) IN
            matcher' = [call |-> "process_withdrawal", amount |-> amount,
                        wallet |-> best,
                        score |-> _calculate_match_score(amount, best),
                        matched |-> persist_ok]
    /\ UNCHANGED <<pipeline, execution>>
    /\ UNCHANGED <<sim_result, jito, correlation, bus, cex, sizing, vault, report>>

CalculateMatchScore(amount, wallet) ==
    /\ matcher' = [call |-> "_calculate_match_score", amount |-> amount,
                   wallet |-> wallet,
                   score |-> _calculate_match_score(amount, wallet),
                   matched |-> FALSE]
    /\ UNCHANGED <<pipeline, execution>>
    /\ UNCHANGED <<sim_result, jito, correlation, bus, cex, sizing, vault, report>>

\* Tables of tx_events with up to two funding events.
TableRows ==
    [first_funded_time : {0, 150000, 300001},
     first_funded_amount : {1996, 1999, 2000}, tx_count : {0, 2}]
Tables == {{}} \cup {{a, b} : a \in TableRows, b \in TableRows}

NextMatcher ==
    \/ \E amount \in WithdrawalAmounts, rows \in Tables,
          ok \in BOOLEAN, persist_ok \in BOOLEAN :
            ProcessWithdrawal(amount, rows, ok, persist_ok)
    \/ \E amount \in WithdrawalAmounts, wallet \in FreshWallets :
          CalculateMatchScore(amount, wallet)

SpecMatcher == InitRisk /\ [][NextMatcher]_vars

(***************************************************************************)
(* The correlation engine fed with any sequence of events.                 *)
(***************************************************************************)
ProcessEvent(event, correlated, first) ==
    /\ correlation.events < MaxEvents
    /\ first \in FirstKnown(correlation,
                            _find_correlated_wallets(
                                _cache_event(correlation._event_cache, event),
                                event))
    /\ correlation' = process_event(correlation, event, correlated, first)
    /\ UNCHANGED <<pipeline, execution>>
    /\ UNCHANGED <<sim_result, jito, matcher, bus, cex, sizing, vault, report>>

NextCorrelation ==
    \E event \in CorrelationEvents, correlated \in BOOLEAN,
       first \in Addresses :
        ProcessEvent(event, correlated, first)

SpecCorrelation == InitRisk /\ [][NextCorrelation]_vars

(***************************************************************************)
(* Ingestion and consumption of the transactions of one wallet.            *)
(***************************************************************************)
\* src/main.py _start_ingestion: one listener runs, holding the publisher.
StartIngestion(listener, publisher) ==
    /\ bus.listener = "none"
    /\ bus' = [bus EXCEPT !.listener = listener, !.publisher = publisher]
    /\ UNCHANGED <<pipeline, execution>>
    /\ UNCHANGED <<sim_result, jito, matcher, correlation, cex, sizing, vault,
                   report>>

\* SolanaGeyserListener._process_transaction: the publish is handed to a
\* new task and not awaited.  Without a publish attribute the call raises,
\* the except clause logs, and nothing is published.
GeyserProcessTransaction ==
    /\ bus.listener = "geyser"
    /\ bus.produced < MaxSlot
    /\ LET slot == bus.produced + 1 IN
       bus' = [bus EXCEPT
                 !.produced = slot,
                 !.tasks = IF bus.publisher = "redis" THEN @ \cup {slot}
                           ELSE @]
    /\ UNCHANGED <<pipeline, execution>>
    /\ UNCHANGED <<sim_result, jito, matcher, correlation, cex, sizing, vault,
                   report>>

\* One of the pending publish tasks gets its message to the channel.
PublishTask(slot) ==
    /\ slot \in bus.tasks
    /\ bus' = [bus EXCEPT !.tasks = @ \ {slot},
                          !.channel = Append(@, slot)]
    /\ UNCHANGED <<pipeline, execution>>
    /\ UNCHANGED <<sim_result, jito, matcher, correlation, cex, sizing, vault,
                   report>>

\* SolanaWebSocketListener._handle_logs_notification: publish_transaction is
\* awaited before the next message is read; a failing redis.publish raises.
HandleLogsNotification(ok) ==
    /\ bus.listener = "websocket"
    /\ bus.produced < MaxSlot
    /\ LET slot == bus.produced + 1 IN
       bus' = [bus EXCEPT
                 !.produced = slot,
                 !.channel = IF bus.publisher = "RedisEventPublisher" /\ ok
                             THEN Append(@, slot) ELSE @]
    /\ UNCHANGED <<pipeline, execution>>
    /\ UNCHANGED <<sim_result, jito, matcher, correlation, cex, sizing, vault,
                   report>>

\* LogicEngine._process_loop: one message at a time, _process_transaction
\* awaited, which awaits cabal_engine.process_event.
ProcessLoop ==
    /\ bus.channel # <<>>
    /\ bus' = [bus EXCEPT !.channel = Tail(@),
                          !.observed = Append(@, Head(bus.channel))]
    /\ UNCHANGED <<pipeline, execution>>
    /\ UNCHANGED <<sim_result, jito, matcher, correlation, cex, sizing, vault,
                   report>>

NextBus ==
    \/ \E listener \in Listeners, publisher \in Publishers :
          StartIngestion(listener, publisher)
    \/ GeyserProcessTransaction
    \/ \E slot \in 1 .. MaxSlot : PublishTask(slot)
    \/ \E ok \in BOOLEAN : HandleLogsNotification(ok)
    \/ ProcessLoop

SpecBus == InitRisk /\ [][NextBus]_vars

(***************************************************************************)
(* The Geyser listener handing transactions to the CEX monitor.            *)
(***************************************************************************)
\* process_high_speed_withdrawal: the SOL balances of meta go to
\* parse_transaction_accounts; what comes back is only logged, and any
\* exception is caught.
ProcessHighSpeedWithdrawal(signature, pre_balances, post_balances, account_keys) ==
    /\ LET r == parse_transaction_accounts(cex._processed_txs, signature,
                    pre_balances, post_balances, account_keys) IN
       cex' = [_processed_txs |-> r._processed_txs,
               tx_hash |-> signature,
               pre_balances |-> pre_balances,
               post_balances |-> post_balances,
               account_keys |-> account_keys,
               warned |-> r.warned,
               events |-> r.events,
               returned |-> r.returned]
    /\ UNCHANGED <<pipeline, execution>>
    /\ UNCHANGED <<sim_result, jito, matcher, correlation, bus, sizing, vault,
                   report>>

NextCex ==
    \E signature \in Signatures, pre \in PreBalances, post \in PostBalances,
       n_pre \in ArrayLengths, n_post \in ArrayLengths,
       n_keys \in ArrayLengths :
        ProcessHighSpeedWithdrawal(signature, SubSeq(pre, 1, n_pre),
            SubSeq(post, 1, n_post), SubSeq(AccountKeys, 1, n_keys))

SpecCex == InitRisk /\ [][NextCex]_vars

(***************************************************************************)
(* Sizing a position for a confidence and validating a size.               *)
(***************************************************************************)
CalculatePositionSize(conf) ==
    /\ sizing' = [confidence |-> conf,
                  size_sol |-> _calculate_position_size(conf),
                  accepted |->
                      validate_position_size(_calculate_position_size(conf))]
    /\ UNCHANGED <<pipeline, execution>>
    /\ UNCHANGED <<sim_result, jito, matcher, correlation, bus, cex, vault,
                   report>>

ValidatePositionSize(size_sol) ==
    /\ sizing' = [confidence |-> -1,
                  size_sol |-> size_sol,
                  accepted |-> validate_position_size(size_sol)]
    /\ UNCHANGED <<pipeline, execution>>
    /\ UNCHANGED <<sim_result, jito, matcher, correlation, bus, cex, vault,
                   report>>

NextSizing ==
    \/ \E conf \in Confidences : CalculatePositionSize(conf)
    \/ \E size_sol \in Sizes : ValidatePositionSize(size_sol)

SpecSizing == InitRisk /\ [][NextSizing]_vars

(***************************************************************************)
(* A key is encrypted, the stored blob may have one bit flipped, and the   *)
(* blob is decrypted.                                                      *)
(***************************************************************************)
EncryptKey(private_key, nonce) ==
    /\ LET r == encrypt_key(private_key, nonce) IN
       vault' = [phase |-> IF r.raised THEN "none" ELSE "encrypted",
                 private_key |-> private_key,
                 blob |-> r.value,
                 flipped |-> -1,
                 result |-> [raised |-> r.raised, value |-> <<>>]]
    /\ UNCHANGED <<pipeline, execution>>
    /\ UNCHANGED <<sim_result, jito, matcher, correlation, bus, cex, sizing,
                   report>>

\* The stored blob changes in one bit of one character.
FlipBit(position) ==
    /\ vault.phase = "encrypted"
    /\ vault.flipped = -1
    /\ position < 8 * Len(vault.blob)
    /\ vault' = [vault EXCEPT
                   !.flipped = position,
                   !.blob[position \div 8 + 1] = FlippedBit(@, position % 8)]
    /\ UNCHANGED <<pipeline, execution>>
    /\ UNCHANGED <<sim_result, jito, matcher, correlation, bus, cex, sizing,
                   report>>

DecryptKey ==
    /\ vault.phase = "encrypted"
    /\ vault' = [vault EXCEPT !.phase = "decrypted",
                              !.result = decrypt_key(vault.blob)]
    /\ UNCHANGED <<pipeline, execution>>
    /\ UNCHANGED <<sim_result, jito, matcher, correlation, bus, cex, sizing,
                   report>>

NextVault ==
    \/ \E private_key \in PrivateKeys, nonce \in Nonces :
          EncryptKey(private_key, nonce)
    \/ \E position \in 0 .. 8 * 44 - 1 : FlipBit(position)
    \/ DecryptKey

SpecVault == InitRisk /\ [][NextVault]_vars

(***************************************************************************)
(* The breaker called from several asyncio tasks.  The methods that take   *)
(* self._lock (can_trade, record_trade_result, record_position_opened,     *)
(* force_unlock, reset_daily_stats) exclude one another and are one step   *)
(* each.  panic_sell_all does not take the lock: it is cut at its first    *)
(* suspension, the fetch of the open rows, during which the event loop     *)
(* runs whichever other task is ready.                                     *)
(***************************************************************************)
\* panic_sell_all from the answer of the fetch to its return.
panic_sell_all_after_fetch(s, row, log, ok) ==
    IF ok
    THEN LET s2 == [s EXCEPT !.open_position_count = 0,
                             !.total_exposure = 0]
         IN [state |-> s2, db |-> save_state(s2, row, ok),
             log |-> MarkPanicSold(log)]
    ELSE [state |-> s, db |-> row, log |-> log]

\* panic_sell_all up to "await self.db.fetch(query)"; on a breaker whose
\* _state is None, _trigger_lockdown raises and the call ends there.
PanicSellAllBegin(t) ==
    /\ tasks[t].pc = "idle"
    /\ IF state.loaded
       THEN /\ state' = _trigger_lockdown(state, "Manual panic sell", now)
            /\ tasks' = [tasks EXCEPT ![t] =
                            [IdleTask EXCEPT !.pc = "panic_sell_all"]]
            /\ UNCHANGED last
       ELSE /\ last' = Call("panic_sell_all", FALSE, "raised")
            /\ UNCHANGED <<state, tasks>>
    /\ UNCHANGED <<db, now, trade_log, active_positions, wiring, store_errors>>
    /\ UNCHANGED elsewhere

PanicSellAllResume(t, ok) ==
    /\ Store(ok)
    /\ tasks[t].pc = "panic_sell_all"
    /\ LET r == panic_sell_all_after_fetch(state, db, trade_log, ok) IN
       /\ state' = r.state
       /\ db' = r.db
       /\ trade_log' = r.log
    /\ last' = Call("panic_sell_all", TRUE, "")
    /\ tasks' = [tasks EXCEPT ![t] = IdleTask]
    /\ UNCHANGED <<now, active_positions, wiring>>
    /\ UNCHANGED elsewhere

NextLock ==
    \/ CanTrade(TRUE)
    \/ RecordPositionOpened(TRUE, 300)
    \/ \E pnl \in PnlValues, is_win \in BOOLEAN :
          RecordTradeResult(TRUE, pnl, is_win, 300)
    \/ ForceUnlock(TRUE)
    \/ ResetDailyStats(TRUE)
    \/ PanicSellAllBegin(1)
    \/ PanicSellAllResume(1, TRUE)
    \/ Tick

SpecLock == InitRisk /\ [][NextLock]_vars

(***************************************************************************)
(* process_signal with the simulator behind its step 2: one signal at a    *)
(* time, the store answering, and every outcome of the simulation legs.    *)
(***************************************************************************)
\* Steps 2-6 with check_honeypot computed by the simulator.  A recent row
\* exists only once a result has been persisted.
StepCheckHoneypot(t, row, hit, buy, buy_tax, sell, sell_tax, has_route) ==
    /\ tasks[t].pc = "preflight"
    /\ row = "recent" => sim_result.cached
    /\ LET r == check_honeypot(sim_result, row, hit, buy, buy_tax, sell,
                               sell_tax)
       IN /\ sim_result' = r.result
          /\ tasks' = [tasks EXCEPT ![t] =
                          Preflight(@, r.ret, has_route, TRUE)]
    /\ UNCHANGED <<state, db, now, last, trade_log, active_positions, wiring,
                   store_errors>>
    /\ UNCHANGED execution
    /\ UNCHANGED <<jito, matcher, correlation, bus, cex, sizing, vault, report>>

NextGate ==
    \/ Deliver(1, 1)
    \/ StepCanTrade(1, TRUE)
    \/ \E row \in SimRows, hit \in BOOLEAN, buy \in BuyOutcomes,
          buy_tax \in QuotedTaxes, sell \in SellOutcomes,
          sell_tax \in QuotedTaxes \cup {20}, has_route \in BOOLEAN :
            StepCheckHoneypot(1, row, hit, buy, buy_tax, sell, sell_tax,
                              has_route)
    \/ StepLogEntry(1, TRUE)
    \/ StepRecordOpened(1, TRUE)
    \/ Return(1)
    \/ PanicSellAll(TRUE)

SpecGate == InitRisk /\ [][NextGate]_vars

(***************************************************************************)
(* process_signal with the sub-wallet pool behind its step 6: one signal   *)
(* at a time on an orchestrator whose wallets answer both .get("address")  *)
(* and .wallet_id, selected by get_available_wallet from the pool; a       *)
(* panic_sell_all makes room for the next entry.                           *)
(***************************************************************************)
\* Steps 2-6: the route is asked for first; get_available_wallet is called
\* only when there is one, and the wallet it returns stays in the hand of
\* the execution (callers[t]).
StepGetWallet(t, has_route, order, fetch_ok) ==
    /\ tasks[t].pc = "preflight"
    /\ Store(fetch_ok)
    /\ LET r == IF has_route
                THEN get_available_wallet(pool, order, fetch_ok, TRUE)
                ELSE [pool |-> pool, wallet |-> callers[t]]
       IN /\ pool' = r.pool
          /\ callers' = [callers EXCEPT ![t] = r.wallet]
          /\ tasks' = [tasks EXCEPT ![t] =
                          Preflight(@, FALSE, has_route, r.wallet # NoWallet)]
    /\ UNCHANGED <<state, db, now, last, trade_log, active_positions, wiring>>
    /\ UNCHANGED <<exit_strategy, legs, exit_result, distributions>>
    /\ UNCHANGED components

NextEntries ==
    \/ Deliver(1, 1)
    \/ StepCanTrade(1, TRUE)
    \/ \E has_route \in BOOLEAN, order \in RowOrders, fetch_ok \in BOOLEAN :
          StepGetWallet(1, has_route, order, fetch_ok)
    \/ StepLogEntry(1, TRUE)
    \/ StepRecordOpened(1, TRUE)
    \/ Return(1)
    \/ PanicSellAll(TRUE)
    \/ Tick

SpecEntries == InitPool /\ [][NextEntries]_vars

(***************************************************************************)
(* The correlation engine after a quiet stretch: wallet D alone has        *)
(* touched one monitored program once per slot, which forms no cluster     *)
(* and leaves the cache full (_cache_max_slots slots) or one slot short of *)
(* it; late events of older slots follow.  The counter of events starts    *)
(* again from there.                                                       *)
(***************************************************************************)
QuietCache(slots) ==
    {[wallet_address |-> "D", contract_address |-> "jupiter", slot |-> s] :
        s \in 26 .. 25 + slots}

InitLate ==
    /\ state = NoState
    /\ db = LockdownState
    /\ now = 0
    /\ last = NoCall
    /\ trade_log = <<>>
    /\ active_positions = <<>>
    /\ wiring = [route |-> "dict", wallet |-> "duck"]
    /\ store_errors = 0
    /\ tasks = [t \in Tasks |-> IdleTask]
    /\ exit_strategy = ExitStrategy
    /\ legs = <<>>
    /\ exit_result = NoResult
    /\ pool = [w \in Wallets |-> FreshWallet]
    /\ callers = [c \in Callers |-> NoWallet]
    /\ distributions = <<>>
    /\ sim_result = _classify_risk(SimulationResult)
    /\ jito = NoBundle
    /\ matcher = NoMatch
    /\ \E slots \in {_cache_max_slots - 1, _cache_max_slots} :
          correlation = [NoClusters EXCEPT !._event_cache = QuietCache(slots)]
    /\ bus = NoTraffic
    /\ cex = NoTransaction
    /\ sizing = NoSizing
    /\ vault = NoBlob
    /\ report = NoReport

SpecLate == InitLate /\ [][NextCorrelation]_vars

(***************************************************************************)
(* The CEX monitor with its record of processed transactions full, or one  *)
(* short of full: transactions 1, 2, ... were parsed in that order, each   *)
(* a withdrawal, and are all held.  Further transfers follow, of ids held, *)
(* discarded or new.                                                       *)
(***************************************************************************)
InitDedup ==
    /\ state = NoState
    /\ db = LockdownState
    /\ now = 0
    /\ last = NoCall
    /\ trade_log = <<>>
    /\ active_positions = <<>>
    /\ wiring = [route |-> "dict", wallet |-> "duck"]
    /\ store_errors = 0
    /\ tasks = [t \in Tasks |-> IdleTask]
    /\ exit_strategy = ExitStrategy
    /\ legs = <<>>
    /\ exit_result = NoResult
    /\ pool = [w \in Wallets |-> FreshWallet]
    /\ callers = [c \in Callers |-> NoWallet]
    /\ distributions = <<>>
    /\ sim_result = _classify_risk(SimulationResult)
    /\ jito = NoBundle
    /\ matcher = NoMatch
    /\ correlation = NoClusters
    /\ bus = NoTraffic
    /\ \E held \in {_max_cache_size - 1, _max_cache_size} :
          cex = [NoTransaction EXCEPT !._processed_txs = 1 .. held,
                                      !.tx_hash = 0]
    /\ sizing = NoSizing
    /\ vault = NoBlob
    /\ report = NoReport

\* One call of parse_transfer; returned is the event, or empty for None.
ParseTransfer(tx_hash, from_address, seed) ==
    /\ LET r == parse_transfer(cex._processed_txs, tx_hash, from_address,
                               "user", 100000, seed) IN
       cex' = [_processed_txs |-> r._processed_txs,
               tx_hash |-> tx_hash,
               pre_balances |-> <<>>,
               post_balances |-> <<>>,
               account_keys |-> <<from_address, "user">>,
               warned |-> FALSE,
               events |-> r.event,
               returned |-> r.event]
    /\ UNCHANGED <<pipeline, execution>>
    /\ UNCHANGED <<sim_result, jito, matcher, correlation, bus, sizing, vault,
                   report>>

SampleTxs ==
    {1, EvictionBatch, EvictionBatch + 1, _max_cache_size}
        \cup (_max_cache_size + 1 .. _max_cache_size + MaxFresh)

NextDedup ==
    \E tx_hash \in SampleTxs, from_address \in {"binance", "other"},
       seed \in HashSeeds :
        ParseTransfer(tx_hash, from_address, seed)

SpecDedup == InitDedup /\ [][NextDedup]_vars

(***************************************************************************)
(* Forensics of failed trades.                                             *)
(***************************************************************************)
Losses == {-90, -80, -79, -30, -29, -20, -10, -9, 0}

Slippages == {NoSlippage, 0, 1, 10}

\* analyze_failure, then _save_report, which logs a failing INSERT and
\* lets the report be returned all the same.
AnalyzeFailure(loss_pct, sim_results, slippage_actual, slippage_expected, ok) ==
    /\ LET r == analyze_failure(loss_pct, sim_results, slippage_actual,
                                slippage_expected) IN
       report' = [loss_pct |-> loss_pct,
                  sim_results |-> sim_results,
                  slippage_actual |-> slippage_actual,
                  slippage_expected |-> slippage_expected,
                  failure_category |-> r.failure_category,
                  was_simulation_run |-> r.was_simulation_run,
                  simulation_result |-> r.simulation_result,
                  saved |-> ok]
    /\ UNCHANGED <<pipeline, execution>>
    /\ UNCHANGED <<sim_result, jito, matcher, correlation, bus, cex, sizing,
                   vault>>

NextForensics ==
    \E loss_pct \in Losses, sim_results \in SimRuns,
       slippage_actual \in Slippages, slippage_expected \in Slippages,
       ok \in BOOLEAN :
        AnalyzeFailure(loss_pct, sim_results, slippage_actual,
                       slippage_expected, ok)

SpecForensics == InitRisk /\ [][NextForensics]_vars

(***************************************************************************)
(* Properties of the orchestrator, checked under Spec.                     *)
(***************************************************************************)
\* C1: under any sequence of deliveries, duplicates included, entry is
\* performed at most once per signal id: the trade_log never holds two rows
\* for one signal_id.
C1_AtMostOneEntryPerSignal ==
    \A i, j \in DOMAIN trade_log :
        trade_log[i].signal_id = trade_log[j].signal_id => i = j

\* C8: process_signal reports success exactly when the Open row was
\* persisted, record_position_opened was applied and the position is in the
\* book; an execution that reports failure has done none of the three.
C8_EntryAllOrNothing ==
    \A t \in Tasks :
        tasks[t].pc = "done" =>
            IF tasks[t].success
            THEN /\ tasks[t].trade_id \in DOMAIN trade_log
                 /\ tasks[t].trade_id \in DOMAIN active_positions
                 /\ "record_position_opened" \in tasks[t].calls
            ELSE /\ tasks[t].trade_id = 0
                 /\ "record_position_opened" \notin tasks[t].calls

\* C9: process_signal reports success only for a trade whose bundle was
\* submitted through the bundle submitter before the trade was recorded.
C9_SubmittedBeforeRecorded ==
    \A t \in Tasks :
        tasks[t].success => "submit_bundle" \in tasks[t].calls

\* C10: two process_signal executions for the same token mint never
\* overlap, so that no two of them are past the gates of the entry
\* sequence at the same time.
C10_SerialPerTokenMint ==
    \A t1, t2 \in Tasks :
        /\ t1 # t2
        /\ tasks[t1].pc \in {"log_entry", "record"}
        /\ tasks[t2].pc \in {"log_entry", "record"}
        => token_mint(tasks[t1].signal) # token_mint(tasks[t2].signal)

(***************************************************************************)
(* Properties of the circuit breaker, checked under SpecRisk.              *)
(***************************************************************************)
\* C2: a can_trade() during which the load of the breaker state fails on a
\* store error returns false.
C2_FailClosedOnLoadError ==
    (last.op = "can_trade" /\ last.note = "load_failed") => ~last.ret

\* C3: can_trade() returns true if and only if, on the state in force when
\* it returns, the breaker is not locked and open_position_count is below
\* max_open_positions.
C3_CanTradeIffUnlockedBelowMax ==
    last.op = "can_trade" =>
        (last.ret <=> (/\ ~state.is_locked
                       /\ state.open_position_count < max_open_positions))

\* C4: record_trade_result triggers lockdown if and only if, after applying
\* the result, |daily_pnl / capital| > max_daily_drawdown_pct or
\* consecutive_losses >= max_consecutive_losses.  When it triggers, it
\* returns false, is_locked holds, a reason is recorded and
\* unlock_at = now + lockdown_hours > now; otherwise it returns true and
\* the lock is as it was.  (The conjunct on last'.op is implied by the
\* action; it spares evaluating the action on the steps of other calls.)
C4_LockdownIffLimitBreached ==
    [][\A ok \in BOOLEAN, pnl \in PnlValues, is_win \in BOOLEAN,
          position_size \in PositionSizes :
          (/\ last'.op = "record_trade_result"
           /\ RecordTradeResult(ok, pnl, is_win, position_size)) =>
            LET s == EnsureLoaded(state, db, ok) IN
            IF \/ Abs(state'.daily_pnl) * 100 > max_daily_drawdown_pct * capital
               \/ state'.consecutive_losses >= max_consecutive_losses
            THEN /\ ~last'.ret
                 /\ state'.is_locked
                 /\ state'.lock_reason \in {"Daily drawdown exceeded",
                                            "Consecutive losses"}
                 /\ state'.locked_at = now
                 /\ state'.unlock_at = now + lockdown_hours
                 /\ state'.unlock_at > now
            ELSE /\ last'.ret
                 /\ state'.is_locked = s.is_locked
                 /\ state'.lock_reason = s.lock_reason
                 /\ state'.unlock_at = s.unlock_at]_vars

\* C4: a run of losses has just locked the breaker.
C4_LockedByLosses ==
    /\ last.op = "record_trade_result"
    /\ ~last.ret
    /\ state.is_locked
    /\ state.lock_reason = "Consecutive losses"
    /\ state.unlock_at = now + lockdown_hours

\* C5 as stated: a can_trade() that finds the breaker locked unlocks it and
\* returns true when now >= unlock_at, and otherwise returns false and
\* leaves the lock in place.
C5_UnlocksFromUnlockAt ==
    [][\A ok \in BOOLEAN :
          (/\ last'.op = "can_trade"
           /\ CanTrade(ok) \/ StepCanTrade(1, ok)) =>
            LET s == EnsureLoaded(state, db, ok) IN
            s.is_locked =>
                IF s.unlock_at # NoTime /\ now >= s.unlock_at
                THEN last'.ret /\ ~state'.is_locked
                ELSE /\ ~last'.ret
                     /\ state'.is_locked
                     /\ state'.unlock_at = s.unlock_at]_vars

\* C5, amended: a can_trade() that finds the breaker locked unlocks it and
\* returns true when now > unlock_at, strictly; at now <= unlock_at, the
\* instant unlock_at included, it returns false and leaves the lock and
\* unlock_at as they are.
C5_UnlocksAfterUnlockAt ==
    [][\A ok \in BOOLEAN :
          (/\ last'.op = "can_trade"
           /\ CanTrade(ok) \/ StepCanTrade(1, ok)) =>
            LET s == EnsureLoaded(state, db, ok) IN
            s.is_locked =>
                IF s.unlock_at # NoTime /\ now > s.unlock_at
                THEN last'.ret /\ ~state'.is_locked
                ELSE /\ ~last'.ret
                     /\ state'.is_locked
                     /\ state'.unlock_at = s.unlock_at]_vars

\* C5: can_trade() has just lifted an expired lockdown and allowed trading.
C5_ImplicitlyUnlocked ==
    /\ last.op = "can_trade"
    /\ last.note = "implicit_unlock"
    /\ last.ret
    /\ ~state.is_locked

\* C6: whatever the breaker state, after panic_sell_all() the breaker is
\* locked, no trade_log row is Open, the open-position counter and the
\* exposure are zero and the state is persisted.
C6_PanicLocksAndFlattens ==
    last.op = "panic_sell_all" =>
        /\ state.is_locked
        /\ OpenTradeIds(trade_log) = {}
        /\ state.open_position_count = 0
        /\ state.total_exposure = 0
        /\ db = state

\* C7: a process_signal that ends before the entry is logged was rejected
\* at a gate: it reports that gate's reason, has invoked no later step, has
\* created no row and no position.
C7_RejectedWithGateReason ==
    \A t \in Tasks :
        (/\ tasks[t].pc = "done"
         /\ ~tasks[t].success
         /\ "_log_trade_entry" \notin tasks[t].calls)
        => /\ tasks[t].error \in {ErrBreaker, ErrHoneypot, ErrSize, ErrRoute}
           /\ tasks[t].trade_id = 0
           /\ "record_position_opened" \notin tasks[t].calls
           /\ "register_position" \notin tasks[t].calls

(***************************************************************************)
(* Properties of the tiered exits, checked under SpecExit.                 *)
(***************************************************************************)
\* C11: each exit tier fires at most once per position: with a router
\* whose routes _execute_exit accepts and the default strategy, no two
\* sell legs of one position are at the same tier (after the T1 leg at
\* 2.1p there is no further T1 leg at 4.8p).
C11_EachTierFiresOnce ==
    (wiring.route = "Route" /\ exit_strategy = ExitStrategy) =>
        \A i, j \in DOMAIN legs :
            (legs[i].trade_id = legs[j].trade_id /\ legs[i].tier = legs[j].tier)
            => i = j

C13_FinalExitReleasesCount ==
    state.open_position_count = Cardinality(DOMAIN active_positions)

\* C14: no trade_log row has a status other than Open without an exit
\* time and a realized P&L.
C14_ExitSetsTimeAndPnl ==
    \A i \in DOMAIN trade_log :
        trade_log[i].status # "open" =>
            /\ trade_log[i].exit_time # "None"
            /\ trade_log[i].realized_pnl # "None"

(***************************************************************************)
(* Properties of the breaker's bookkeeping, checked under SpecBreaker.     *)
(***************************************************************************)
\* C15 as stated: after every record_trade_result, from any breaker state,
\* open_position_count is strictly smaller than before the call.
C15_OpenCountStrictlyDecreases ==
    [][\A ok \in BOOLEAN, pnl \in PnlValues, is_win \in BOOLEAN,
          position_size \in {0, 300} :
          RecordTradeResult(ok, pnl, is_win, position_size) =>
            state'.open_position_count
               < EnsureLoaded(state, db, ok).open_position_count]_vars

\* C15, amended: after record_trade_result, open_position_count is one
\* less than before the call when it was positive, and is still 0 when it
\* was 0; it is never negative.
C15_OpenCountDecreasesToZero ==
    [][\A ok \in BOOLEAN, pnl \in PnlValues, is_win \in BOOLEAN,
          position_size \in {0, 300} :
          RecordTradeResult(ok, pnl, is_win, position_size) =>
            LET before == EnsureLoaded(state, db, ok).open_position_count IN
            /\ state'.open_position_count
                  = IF before > 0 THEN before - 1 ELSE 0
            /\ state'.open_position_count >= 0]_vars

\* C15: record_trade_result has just taken the count of open positions
\* down to one that is still positive.
C15_CountTakenDown ==
    /\ last.op = "record_trade_result"
    /\ state.open_position_count = 1
    /\ state.total_exposure = 300

C17_LockedUntilFutureTime ==
    state.is_locked => (state.unlock_at # NoTime /\ state.unlock_at > now)

\* C17, amended: while the breaker is locked, unlock_at is set, to
\* lockdown_hours after locked_at, and the lock was set at or before now;
\* unlock_at may lie in the past, the lock being lifted only by the next
\* can_trade() or by force_unlock.
C17_LockedWithUnlockTime ==
    state.is_locked =>
        /\ state.unlock_at # NoTime
        /\ state.locked_at # NoTime
        /\ state.unlock_at = state.locked_at + lockdown_hours
        /\ state.locked_at <= now

\* C17: the lockdown period is over and the breaker is still locked.
C17_LockOutlivesUnlockAt ==
    /\ state.is_locked
    /\ state.unlock_at # NoTime
    /\ state.unlock_at < now

(***************************************************************************)
(* Properties of the sub-wallet pool, checked under SpecPool.              *)
(***************************************************************************)
\* C18: a wallet returned by get_available_wallet is available (active, not
\* retired, balance >= min_active_balance), has fewer than
\* max_trades_before_rotation trades and was used least recently among such
\* wallets (None is returned when there is none); a selected wallet with
\* that many trades or more is retired and no longer active when the call
\* has selected again and returned; a retired wallet is never active.
C18_ReturnsLeastRecentBelowThreshold ==
    [][\A c \in Callers, order \in RowOrders,
          fetch_ok \in BOOLEAN, rotate_ok \in BOOLEAN :
          Acquire(c, order, fetch_ok, rotate_ok) =>
            LET worn == {w \in Available(pool) :
                           pool[w].total_trades >= max_trades_before_rotation}
                good == Available(pool) \ worn
                got == callers'[c]
            IN
            /\ got # NoWallet =>
                 /\ got.wallet_id \in good
                 /\ \A v \in good :
                       pool[got.wallet_id].last_used <= pool[v].last_used
            /\ good = {} => got = NoWallet
            /\ (fetch_ok /\ Available(pool) # {}) =>
                 LET selected == FirstRow(pool, order) IN
                 selected \in worn =>
                    pool'[selected].is_retired /\ ~pool'[selected].is_active
            /\ \A v \in Wallets : pool'[v].is_retired => ~pool'[v].is_active]_vars

\* C19: no two callers hold, between their get_available_wallet and their
\* mark_wallet_used, the same wallet selected from the same last_used and
\* trade counter.
C19_SelectionAndBumpSerialized ==
    \A c1 \in Callers, c2 \in Callers :
        (c1 # c2 /\ callers[c1] # NoWallet) => callers[c1] # callers[c2]

(***************************************************************************)
(* Properties of distribute_trade, checked under SpecDistribute.           *)
(***************************************************************************)
\* C20: distribute_trade returns at most 5 (wallet, amount) pairs whose
\* wallets are pairwise distinct, and when all min(split_count, 5) pairs
\* are produced their amounts add up to the total, the last one being the
\* remainder.
C20_DistinctWalletsPartitionTotal ==
    [][\A order \in RowOrders, total_amount \in TotalAmounts,
          config_split_count \in SplitCounts, variances \in VarianceDraws :
          DistributeTrade(order, total_amount, config_split_count,
                          variances) =>
            LET d == distributions'
                n == Len(d)
            IN
            /\ n <= MaxSplits
            /\ \A i \in 1 .. n, j \in 1 .. n :
                  i # j => d[i].wallet_id # d[j].wallet_id
            /\ n = Min(config_split_count, MaxSplits) =>
                  /\ TotalDistributed(d) = total_amount
                  /\ d[n].amount
                        = total_amount - TotalDistributed(SubSeq(d, 1, n - 1))]_vars

(***************************************************************************)
(* Properties of the simulator, checked under SpecSim.                     *)
(***************************************************************************)
\* C21: a result of simulate_token in which a leg failed or raised (the buy
\* did not succeed, or the sell did not succeed) is never classified safe.
C21_NeverSafeOnFailure ==
    (sim_result.cached
        /\ (~sim_result.buy_success \/ sim_result.sell_success # "True"))
    => sim_result.risk_classification # "safe"

C23_OneRequestPendingOrFailed ==
    [][\A transactions \in 0 .. max_transactions + 2, response \in Responses :
          SubmitBundle(transactions, response) =>
            LET r == jito'.result IN
            /\ r.status \in {"pending", "failed"}
            /\ (transactions = 0 \/ transactions > 5) =>
                  /\ jito'.posts = jito.posts
                  /\ r.status = "failed"
                  /\ r.bundle_id = ""
                  /\ r.error # "None"
            /\ (transactions \in 1 .. 5) =>
                  /\ jito'.posts = jito.posts + 1
                  /\ response \in BundleIds =>
                        /\ r.status = "pending"
                        /\ r.bundle_id = response
                        /\ r.error = "None"
                  /\ response \notin BundleIds =>
                        /\ r.status = "failed"
                        /\ r.bundle_id = ""
                        /\ r.error # "None"]_vars

\* C23: an empty bundle has been refused after an earlier call had sent its
\* request, and no further request was sent for it.
C23_EmptyBundleRefused ==
    /\ jito.posts = 1
    /\ jito.transactions = 0
    /\ jito.result.status = "failed"
    /\ jito.result.error = "Bundle must contain at least one transaction"

(***************************************************************************)
(* Properties of the matcher, checked under SpecMatcher.                   *)
(***************************************************************************)
\* C24: a candidate funded more than MAX_TIME_WINDOW_MS (300 s) from the
\* withdrawal, or for an amount differing by more than
\* MAX_AMOUNT_DELTA_HARD_PCT (0.5%), has score 0 and is not matched; every
\* score lies in [0, 1]; process_withdrawal returns a match only for a
\* candidate with a score of MIN_MATCH_SCORE (0.75) or more.
C24_ScoreZeroOutsideLimits ==
    LET late == Abs(matcher.wallet.first_funded_time) > MAX_TIME_WINDOW_MS
        delta == Abs(matcher.wallet.first_funded_amount - matcher.amount)
        far == delta * 1000 > 5 * matcher.amount
    IN /\ matcher.score \in 0 .. 1000
       /\ (matcher.call # "none" /\ matcher.wallet # NoFreshWallet
             /\ (late \/ far)) =>
             (matcher.score = 0 /\ ~matcher.matched)
       /\ matcher.matched =>
             /\ matcher.call = "process_withdrawal"
             /\ matcher.score >= 750
             /\ matcher.score = _calculate_match_score(matcher.amount, matcher.wallet)
             /\ ~late /\ ~far

\* C24: a wallet funded just after the window, for the exact amount, has
\* been scored 0.
C24_LateFundingScoredZero ==
    /\ matcher.call = "_calculate_match_score"
    /\ matcher.amount = 2000
    /\ matcher.wallet.first_funded_time = 300001
    /\ matcher.wallet.first_funded_amount = 2000
    /\ matcher.score = 0

(***************************************************************************)
(* C25: across process_event calls every cluster keeps the wallets it has  *)
(* and its set of shared contracts only grows.                             *)
(***************************************************************************)
C25_ClustersOnlyGrow ==
    [][/\ Len(correlation'._clusters) >= Len(correlation._clusters)
       /\ \A id \in 1 .. Len(correlation._clusters) :
            /\ correlation._clusters[id].wallets
                  \subseteq correlation'._clusters[id].wallets
            /\ correlation._clusters[id].shared_contracts
                  \subseteq correlation'._clusters[id].shared_contracts]_vars

\* A cluster that has taken in a third wallet on a second contract.
C25_ClusterGrown ==
    \E id \in 1 .. Len(correlation._clusters) :
        /\ Cardinality(correlation._clusters[id].wallets) >= 3
        /\ Cardinality(correlation._clusters[id].shared_contracts) >= 2

C27_WithdrawalHandedToCaller ==
    cex.tx_hash # "None" =>
        LET well_formed == /\ Len(cex.pre_balances) = Len(cex.post_balances)
                           /\ Len(cex.post_balances) = Len(cex.account_keys)
        IN /\ well_formed =>
                \A p \in Transfers(cex.pre_balances, cex.post_balances,
                                   cex.account_keys) :
                    /\ cex.returned # "None"
                    /\ \E k \in 1 .. Len(cex.returned) :
                          /\ cex.returned[k].cex_wallet
                                = cex.account_keys[p[1]]
                          /\ cex.returned[k].recipient_wallet
                                = cex.account_keys[p[2]]
           /\ ~well_formed => cex.warned /\ cex.returned = <<>>

(***************************************************************************)
(* C28: for a confidence c in [0, 1] the position size is                  *)
(* capital * (1% + c * 4%), larger than the size of every smaller          *)
(* confidence, at most 5% of capital, and accepted by                      *)
(* validate_position_size, which accepts a size exactly when it is at most *)
(* capital * max_position_size_pct.                                        *)
(***************************************************************************)
C28_SizeWithinLimit ==
    /\ sizing.accepted <=>
          sizing.size_sol * 100 <= capital * max_position_size_pct
    /\ sizing.confidence \in 0 .. 100 =>
          /\ sizing.size_sol * 10000 = capital * (100 + sizing.confidence * 4)
          /\ \A c \in 0 .. 100 :
                c < sizing.confidence =>
                    _calculate_position_size(c) < sizing.size_sol
          /\ sizing.size_sol * 100 <= capital * 5
          /\ sizing.accepted

\* Full confidence sized at exactly 5% of capital and accepted.
C28_FullConfidenceAccepted ==
    /\ sizing.confidence = 100
    /\ sizing.size_sol * 100 = capital * 5
    /\ sizing.accepted

(***************************************************************************)
(* C29: decrypt_key of what encrypt_key returned is the key, and           *)
(* decrypt_key of that blob with any single bit flipped raises instead of  *)
(* returning key material.                                                 *)
(***************************************************************************)
C29_RoundTripAndTamperDetected ==
    vault.phase = "decrypted" =>
        IF vault.flipped = -1
        THEN ~vault.result.raised /\ vault.result.value = vault.private_key
        ELSE vault.result.raised

(***************************************************************************)
(* C30: under any interleaving of concurrent process_signal executions,    *)
(* each calling can_trade() first and record_position_opened() later,      *)
(* open_position_count never exceeds max_open_positions.                   *)
(***************************************************************************)
C30_BoundedExposure ==
    state.open_position_count <= max_open_positions

(***************************************************************************)
(* C31: no position is opened while the breaker is locked:                 *)
(* record_position_opened is never applied, and no Open trade_log row is   *)
(* written, in a state with is_locked = true, even when panic_sell_all     *)
(* locks the breaker between a signal's can_trade() and its entry.         *)
(***************************************************************************)
C31_NoEntryWhileLocked ==
    [][\A t \in Tasks, ok \in BOOLEAN :
          /\ (/\ last'.op = "record_position_opened"
              /\ StepRecordOpened(t, ok)) =>
                ~EnsureLoaded(state, db, ok).is_locked
          /\ (/\ trade_log' # trade_log
              /\ StepLogEntry(t, ok)) =>
                ~state.is_locked]_vars

(***************************************************************************)
(* C32: the state-changing operations of the breaker are mutually          *)
(* exclusive: while one of them is half-applied (here panic_sell_all,      *)
(* suspended after its lockdown and before it zeroes the counters), no     *)
(* other operation reads or changes the state; only the suspended          *)
(* operation itself goes on.                                               *)
(***************************************************************************)
C32_MutationsMutuallyExclusive ==
    [][(\E t \in Tasks : tasks[t].pc = "panic_sell_all") =>
          \/ UNCHANGED <<state, db, last>>
          \/ \E t \in Tasks : PanicSellAllResume(t, TRUE)]_vars

(***************************************************************************)
(* C33: a share of a position is sold at most once: a step that submits    *)
(* the bundle of a sell leg reduces the position's remaining_pct or        *)
(* removes the position from the book, even if the exit row is then not    *)
(* persisted; a step that submits nothing leaves the book as it is.        *)
(***************************************************************************)
C33_ShareSoldAtMostOnce ==
    [][/\ legs' # legs =>
            LET id == legs'[Len(legs')].trade_id IN
            \/ id \notin DOMAIN active_positions'
            \/ active_positions'[id].remaining_pct
                  < active_positions[id].remaining_pct
       /\ legs' = legs => active_positions' = active_positions]_vars

(***************************************************************************)
(* C34: the orchestrator opens a position only on a token whose latest     *)
(* simulation verdict is tradeable (safe or caution): a signal that got    *)
(* past the honeypot check, and so may log and record its entry, has a     *)
(* tradeable SimulationResult.                                             *)
(***************************************************************************)
C34_OpensOnlyTradeable ==
    \A t \in Tasks :
        (\/ tasks[t].pc \in {"log_entry", "record"}
         \/ tasks[t].pc = "done" /\ tasks[t].success)
        => is_tradeable(sim_result)

(***************************************************************************)
(* C35: every trade executed through a sub-wallet bumps that wallet's      *)
(* trade counter and last_used: when process_signal has succeeded, the     *)
(* row of the wallet it was handed counts one trade more than when it was  *)
(* selected and has a last_used, so that the next selection rotates.       *)
(***************************************************************************)
C35_TradeMarksWalletUsed ==
    \A t \in Tasks :
        (tasks[t].pc = "done" /\ tasks[t].success) =>
            /\ callers[t] # NoWallet
            /\ pool[callers[t].wallet_id].total_trades
                  = callers[t].total_trades + 1
            /\ pool[callers[t].wallet_id].last_used # NoTime

(***************************************************************************)
(* C36: after any sequence of cluster updates the wallet -> cluster-id     *)
(* index agrees with the cluster-id -> member-set mapping: index[w] = c    *)
(* if and only if w is a member of cluster c, so that every wallet is a    *)
(* member of at most one cluster (clusters found to share wallets are      *)
(* merged, not left overlapping).                                          *)
(***************************************************************************)
C36_IndexAgreesWithMembers ==
    \A w \in Addresses, id \in 1 .. Len(correlation._clusters) :
        (correlation._wallet_clusters[w] = id)
            <=> (w \in correlation._clusters[id].wallets)

(***************************************************************************)
(* C37: process_event produces no correlation result, no confidence        *)
(* escalation and no cluster change when the candidate events for the      *)
(* contract within the slot window involve fewer than MIN_CLUSTER_SIZE     *)
(* distinct wallets.                                                       *)
(***************************************************************************)
C37_NothingBelowClusterSize ==
    [][\A event \in CorrelationEvents, correlated \in BOOLEAN,
          first \in Addresses :
          (/\ correlation'.events = correlation.events + 1
           /\ ProcessEvent(event, correlated, first)) =>
            LET candidates ==
                    _find_correlated_wallets(correlation'._event_cache, event)
            IN Cardinality({e.wallet_address : e \in candidates})
                    < MIN_CLUSTER_SIZE
               => /\ correlation'.results = 0
                  /\ correlation'.escalated = NoEscalation
                  /\ correlation'._clusters = correlation._clusters
                  /\ correlation'._wallet_clusters
                        = correlation._wallet_clusters]_vars

(***************************************************************************)
(* C38: in one detection the confidence of each participant is raised      *)
(* exactly once, by ESCALATION_BASE * |cluster| / 10, |cluster| being the  *)
(* number of distinct wallets of the detection (30 thousandths each for    *)
(* three wallets).                                                         *)
(***************************************************************************)
C38_EachParticipantRaisedOnce ==
    LET participants == {w \in Addresses : correlation.escalated[w] # 0}
    IN \A w \in participants :
           correlation.escalated[w]
               = (ESCALATION_BASE * Cardinality(participants)) \div 10

(***************************************************************************)
(* C39: the record of processed transaction ids is a bounded LRU: it holds *)
(* at most _max_cache_size ids after every call, what a call discards was  *)
(* processed before everything it keeps, and an id held produces no second *)
(* event.  (Under SpecDedup the ids held at the start were processed in    *)
(* increasing order, and every other id after them.)                       *)
(***************************************************************************)
C39_ProcessedIsBoundedLRU ==
    [][cex'.tx_hash # 0 =>
        LET discarded == (cex._processed_txs \cup {cex'.tx_hash})
                            \ cex'._processed_txs
        IN /\ Cardinality(cex'._processed_txs) <= _max_cache_size
           /\ cex'.tx_hash \in cex._processed_txs => cex'.events = <<>>
           /\ cex'.events # <<>> =>
                /\ cex'.tx_hash \notin discarded
                /\ \A x \in discarded :
                      \A y \in cex'._processed_txs : x < y]_vars

(***************************************************************************)
(* C40: analyze_failure assigns the category of the first matching rule:   *)
(* a loss of 80% or more with a simulation that said safe, or with no      *)
(* simulation, is a rug pull (the simulation-miss variant when the         *)
(* simulation ran and said safe); else a slippage more than 5% away from   *)
(* the expected one is Slippage; else a loss above 10% and below 30% is    *)
(* BadSignal; anything else is Unknown.                                    *)
(***************************************************************************)
C40_FirstMatchingRule ==
    report.failure_category # "none" =>
        report.failure_category =
            IF report.loss_pct <= -80 /\ report.sim_results = "safe"
            THEN "simulation_miss"
            ELSE IF report.loss_pct <= -80 /\ report.sim_results = "none"
            THEN "rug_pull"
            ELSE IF /\ report.slippage_actual # NoSlippage
                    /\ report.slippage_expected # NoSlippage
                    /\ Abs(report.slippage_actual
                             - report.slippage_expected) > 5
            THEN "slippage"
            ELSE IF -30 < report.loss_pct /\ report.loss_pct <= -10
            THEN "bad_signal"
            ELSE "unknown"
====
